---- MODULE Spec2Model ----
(***************************************************************************)
(* A model of the routerify request router: the router builder with scope  *)
(* mounting, finalization in the request-service factory, and the          *)
(* per-request pipeline executor (pre-middlewares, route, post-middlewares,*)
(* error handler).                                                         *)
(*                                                                         *)
(* Strings are sequences of one-character strings, so that path rewriting, *)
(* pattern compilation and regex matching are computed, not assumed.       *)
(* Option<T> is a sequence of length 0 (None) or 1 (Some).                 *)
(***************************************************************************)
EXTENDS Integers, Sequences, FiniteSets, TLC

\* ------------------------------------------------------------------ bounds

\* most participants (routes + middlewares) registered by the user over all builders
MaxParticipants == 2

\* longest route-path pattern given to the pattern compiler on its own
MaxPatternLen == 3
\* longest text appended to a pattern when its regex is tried
MaxExtraLen == 2

\* the size limit of the regex compiler (Regex::new fails above it), in regex elements
RegexSizeLimit == 16

\* ---------------------------------------------------------------- Option<T>

None == <<>>
Some(x) == <<x>>
IsSome(o) == o # <<>>
Unwrap(o) == o[1]

Last(s) == s[Len(s)]

\* ------------------------------------------------------------ HTTP methods

ALL_POSSIBLE_HTTP_METHODS ==
  <<"GET", "POST", "PUT", "PATCH", "DELETE", "CONNECT", "HEAD", "OPTIONS", "TRACE">>

\* ------------------------------------------------- path-pattern compilation

\* regex source fragments produced by the pattern compiler
SEG == "([^/]+)"
ANY == "(.*)"
BOL == "(?s)^"
EOL == "$"

\* regex::escape on one character of the model's alphabet
Escape(c) == IF c = "." THEN "\\." ELSE IF c = "*" THEN "\\*" ELSE c

RECURSIVE ParamEnd(_, _)
\* end (exclusive) of the greedy run [^/]+ of PATH_PARAMS_RE that starts at i
ParamEnd(path, i) ==
  IF i > Len(path) \/ path[i] = "/" THEN i ELSE ParamEnd(path, i + 1)

RECURSIVE generate_common_regex_str_from(_, _)
generate_common_regex_str_from(path, pos) ==
  IF pos > Len(path) THEN [re |-> <<>>, params |-> <<>>]
  ELSE IF path[pos] = ":" /\ ParamEnd(path, pos + 1) > pos + 1 THEN
    LET e == ParamEnd(path, pos + 1)
        rest == generate_common_regex_str_from(path, e)
    IN [re |-> <<SEG>> \o rest.re,
        params |-> <<SubSeq(path, pos + 1, e - 1)>> \o rest.params]
  ELSE IF path[pos] = "*" THEN
    LET rest == generate_common_regex_str_from(path, pos + 1)
    IN [re |-> <<ANY>> \o rest.re, params |-> <<(<<"*">>)>> \o rest.params]
  ELSE
    LET rest == generate_common_regex_str_from(path, pos + 1)
    IN [re |-> <<Escape(path[pos])>> \o rest.re, params |-> rest.params]

generate_common_regex_str(path) == generate_common_regex_str_from(path, 1)

\* the exact-match regex left open at its end
generate_exact_match_regex_no_eol(path) ==
  LET c == generate_common_regex_str(path)
  IN [ok |-> TRUE, re |-> <<BOL>> \o c.re, params |-> c.params]

\* Regex::new: a regex larger than the size limit does not compile
Regex_new(re_str) == Len(re_str) <= RegexSizeLimit

\* generate_exact_match_regex; ok is FALSE when it returns the compile error
generate_exact_match_regex(path) ==
  LET c == generate_common_regex_str(path)
      re_str == <<BOL>> \o c.re \o <<EOL>>
  IN [ok |-> Regex_new(re_str), re |-> re_str, params |-> c.params]

\* --------------------------------------------------------- regex matching

RECURSIVE NoSlash(_, _, _)
\* s[from..to] holds no "/"
NoSlash(s, from, to) ==
  from > to \/ (s[from] # "/" /\ NoSlash(s, from + 1, to))

RECURSIVE MatchFrom(_, _, _, _)
\* the regex elements re[i..] match s from position j (anchored at j)
MatchFrom(re, i, s, j) ==
  IF i > Len(re) THEN TRUE
  ELSE IF re[i] = EOL THEN j > Len(s) /\ MatchFrom(re, i + 1, s, j)
  ELSE IF re[i] = ANY THEN \E k \in j..(Len(s) + 1) : MatchFrom(re, i + 1, s, k)
  ELSE IF re[i] = SEG THEN
    \E k \in (j + 1)..(Len(s) + 1) : NoSlash(s, j, k - 1) /\ MatchFrom(re, i + 1, s, k)
  ELSE j <= Len(s) /\ re[i] = Escape(s[j]) /\ MatchFrom(re, i + 1, s, j + 1)

\* Regex::is_match
is_match(re, s) ==
  IF Len(re) > 0 /\ re[1] = BOL THEN MatchFrom(re, 2, s, 1)
  ELSE \E j \in 1..(Len(s) + 1) : MatchFrom(re, 1, s, j)

\* Regex::captures_iter for an exact-match regex (anchored at both ends): the
\* successive non-overlapping matches, each with the text of the whole match
\* (capture group 0); an anchored regex matches the whole text or nothing
captures_iter(re, s) ==
  IF is_match(re, s) THEN << [whole |-> s] >> ELSE <<>>

\* ------------------------------------------------------------ input domains

RouterIds == {"root", "sub"}
\* every router the program may build: a second sub-router for sibling scopes
Builders == RouterIds \cup {"sub2"}

P_star == <<"/", "*">>
P_l == <<"/", "l">>
P_al == <<"/", "a", "/", "l">>
P_a == <<"/", "a">>
P_ax == <<"/", "a", "/", "x">>
P_bad == <<"/", "%ff">>
\* paths too long for the regex compiler
P_long == [i \in 1..RegexSizeLimit |-> IF i % 2 = 1 THEN "/" ELSE "a"]
P_longer == P_long \o <<"/", "l">>

\* <<path, methods>> pairs given to add(), per builder: get("/a/l", h) and
\* any(h) on the root, get("/l", h) and get("/*", h) on the sub-router
AddRoutes(r) ==
  IF r = "root" THEN {<<P_al, <<"GET">> >>, <<P_star, ALL_POSSIBLE_HTTP_METHODS>>}
  ELSE {<<P_l, <<"GET">> >>, <<P_star, <<"GET">> >>}
\* middleware paths (Middleware::pre / post / post_with_info use "/*")
MiddlewarePaths == {P_star}
\* mount prefixes given to scope()
ScopePaths == {P_a}
\* request lines sent to the service
ReqMethods == {"GET", "POST"}
ReqPaths == {P_al, P_ax, P_bad}

\* the same for the runs that exercise the default routes and the trailing slash
P_al_slash == <<"/", "a", "/", "l", "/">>
P_a_enc == <<"/", "a", "%2F">>
P_a_enc_slash == <<"/", "a", "%2F", "/">>
DispatchRoutes(r) ==
  IF r = "root" THEN {<<P_al, <<"GET">> >>, <<P_al, <<"OPTIONS">> >>, <<P_a, <<"GET">> >>}
  ELSE {<<P_l, <<"GET">> >>}
DispatchMethods == {"GET", "OPTIONS"}
DispatchPaths == {P_al, P_al_slash, P_ax, P_a_enc, P_a_enc_slash}

\* the same for the runs that exercise shared data: two sibling sub-routers
P_b == <<"/", "b">>
P_bl == <<"/", "b", "/", "l">>
P_a_slash == <<"/", "a", "/">>
P_x == <<"/", "x">>
\* <<prefix, sub-router>> pairs given to scope() on the root
DataScopes == {<<P_a, "sub">>, <<P_a_slash, "sub">>, <<P_b, "sub2">>}
\* <<type, value>> pairs given to data(), per builder
DataValues(r) ==
  CASE r = "root" -> {<<"T", 1>>}
    [] r = "sub" -> {<<"T", 2>>, <<"U", 2>>}
    [] OTHER -> {<<"T", 3>>}
\* the same for the single router whose data() calls are looked at one by one
RepeatedDataValues == {<<"T", 1>>, <<"T", 4>>, <<"U", 1>>}
DataPaths == {P_al, P_bl, P_x}
\* the same for the runs that exercise route parameters: "/u/:i", "/:i/:j" and
\* "/f/:i.j" as route paths, "/u/4", "/u/4.2", "/4/5" and "/f/4.j" as requests
P_u_i == <<"/", "u", "/", ":", "i">>
P_i_j == <<"/", ":", "i", "/", ":", "j">>
P_f_ij == <<"/", "f", "/", ":", "i", ".", "j">>
P_u4 == <<"/", "u", "/", "4">>
P_u42 == <<"/", "u", "/", "4", ".", "2">>
P_45 == <<"/", "4", "/", "5">>
P_f4j == <<"/", "f", "/", "4", ".", "j">>
ParamRoutes == {P_u_i, P_i_j, P_f_ij}
ParamPaths == {P_u4, P_u42, P_45, P_f4j}

\* the same for the runs that give the pattern compiler every short pattern
\* (pre_with_path) and two longer ones, "/:a/" and "/a/:a/a"
CompilePaths ==
  UNION {[1..k -> {"/", "a", ":", "*"}] : k \in 1..MaxPatternLen}
  \cup {<<"/", ":", "a", "/">>, <<"/", "a", "/", ":", "a", "/", "a">>}
\* the texts appended to a pattern
Extras == UNION {[1..k -> {"/", "a"}] : k \in 1..MaxExtraLen}

\* most keys the data_maps table of a builder holds: "/*" and one per scope
MaxDataKeys == 3

\* ------------------------------------------------------------ participants

\* PreMiddleware::new_with_boxed_handler; reg is the registration stamp
\* (history only: it never influences dispatch)
PreMiddleware_new_with_boxed_handler(path, handler, scope_depth, reg) ==
  [path |-> path, regex |-> generate_exact_match_regex(path).re,
   handler |-> Some(handler), scope_depth |-> scope_depth, reg |-> reg]

PreMiddleware_new(path, reg) ==
  PreMiddleware_new_with_boxed_handler(path, "user", 1, reg)

\* PostMiddleware::new_with_boxed_handler; handler is [variant, fn]
PostMiddleware_new_with_boxed_handler(path, handler, scope_depth, reg) ==
  [path |-> path, regex |-> generate_exact_match_regex(path).re,
   handler |-> Some(handler), scope_depth |-> scope_depth, reg |-> reg]

PostMiddleware_new(path, fn, reg) ==
  PostMiddleware_new_with_boxed_handler(path, [variant |-> "WithoutInfo", fn |-> fn], 1, reg)

PostMiddleware_new_with_info(path, reg) ==
  PostMiddleware_new_with_boxed_handler(path, [variant |-> "WithInfo", fn |-> "user"], 1, reg)

should_require_req_meta(m) ==
  IF IsSome(m.handler) THEN Unwrap(m.handler).variant = "WithInfo" ELSE FALSE

\* Route::new_with_boxed_handler
Route_new_with_boxed_handler(path, methods, handler, scope_depth, reg) ==
  LET c == generate_exact_match_regex(path)
  IN [path |-> path, regex |-> c.re, route_params |-> c.params,
      handler |-> Some(handler), methods |-> methods,
      scope_depth |-> scope_depth, reg |-> reg]

Route_new(path, methods, handler, reg) ==
  Route_new_with_boxed_handler(path, methods, handler, 1, reg)

\* Route::is_match_method
is_match_method(route, method) ==
  \E i \in 1..Len(route.methods) : route.methods[i] = method

\* a mount that leaves the scope depth as it was
mounted_scope_depth_kept(d) == d

\* scope depth given to a participant that is re-hosted by scope()
mounted_scope_depth(d) == d + 1

\* PathParams: a map from parameter name to value, held as its <<name, value>> pairs
PathParams_new == {}

\* PathParams::set: the value replaces an earlier one of the same name
PathParams_set(params, name, val) ==
  {e \in params : e[1] # name} \cup {<<name, val>>}

\* PathParams::get
PathParams_get(params, name) ==
  IF \E e \in params : e[1] = name
  THEN Some((CHOOSE e \in params : e[1] = name)[2])
  ELSE None

RECURSIVE zip_fold(_, _, _, _)
\* `(0..ln).zip(captures_iter).fold(..)` of Route::process_route_req: the idx-th
\* parameter name is given the whole text of the idx-th match
zip_fold(path_params_list, caps, idx, acc) ==
  IF idx > Len(path_params_list) \/ idx > Len(caps) THEN acc
  ELSE zip_fold(path_params_list, caps, idx + 1,
                PathParams_set(acc, path_params_list[idx], caps[idx].whole))

\* Route::process_route_req up to the call of the handler: the request the
\* handler receives
process_route_req(route, path, request) ==
  LET path_params_list == route.route_params
      ln == Len(path_params_list)
      path_params == IF ln > 0
                     THEN zip_fold(path_params_list, captures_iter(route.regex, path), 1,
                                   PathParams_new)
                     ELSE PathParams_new
  IN [request EXCEPT !.params = Some(path_params)]

\* RequestExt::params on the request a route handler holds
RequestExt_params(request) == Unwrap(request.params)

\* RequestExt::param
RequestExt_param(request, name) == PathParams_get(RequestExt_params(request), name)

\* the types of the values the program shares with data() and set_context()
DataTypes == {"T", "U"}

\* DataMap::new: a map keyed by type, no value stored
DataMap_new == [t \in DataTypes |-> None]

\* DataMap::insert: at most one value per type, the new one replaces the old
DataMap_insert(m, t, v) == [m EXCEPT ![t] = Some(v)]

\* DataMap::get
DataMap_get(m, t) == m[t]

\* ScopedDataMap::new
ScopedDataMap_new(path, data_map) ==
  [path |-> path, regex |-> generate_exact_match_regex(path).re,
   data_map |-> Some(data_map)]

\* ---------------------------------------------------------------- state

VARIABLES
  hyperBody,    \* the body type parameter B of Router<B, E> is hyper::Body
  builder,      \* RouterIds -> Option<BuilderInner>
  regs,         \* RouterIds -> number of registration calls made on the builder (history)
  router,       \* RouterIds -> Option<Router>, a built router not yet mounted or served
  service,      \* Option<Router>: the Arc<Router> held by RequestServiceBuilder
  pc,           \* position of the request future
  req,          \* the request as it travels through the pre-middlewares
  target_path,  \* normalized request path
  req_info,     \* Option<RequestInfo>
  matched,      \* the four index lists returned by match_regex_set
  route_scope_depth, \* Option<u32>
  cursor,       \* position in the matched list the current loop iterates
  resp,         \* Option<Response>: the current response
  pending,      \* the participant or error handler being awaited
  result,       \* Option<Result<Response, RouteError>> returned by the service call
  log,          \* history of participant executions of the current request
  sent,         \* history: the request line as the client sent it
  context,      \* the heap of RequestContext cells (Arc<Mutex<DataMap>>) of the current request
  ctx_sets,     \* history: the set_context calls of the current request, <<type, value, caller>>
  handles,      \* the handles to the Arc<Router>: factories alive, remote addresses served
  inflight      \* the request futures that run side by side: [heap, reqs]

vars == <<hyperBody, builder, regs, router, service, pc, req, target_path, req_info,
          matched, route_scope_depth, cursor, resp, pending, result, log, sent,
          context, ctx_sets, handles, inflight>>

callVars == <<pc, req, target_path, req_info, matched, route_scope_depth, cursor,
              resp, pending, result, log, sent, context, ctx_sets, inflight>>

\* RouterBuilder::default; data_maps is the HashMap<String, Vec<DataMap>>, held
\* as its entries [path, arr] with distinct paths (their order here is the
\* order of insertion and means nothing to the program)
BuilderInner_default ==
  [pre_middlewares |-> <<>>, routes |-> <<>>, post_middlewares |-> <<>>,
   data_maps |-> <<>>, err_handler |-> None]

\* HashMap::get_mut: the position of the entry of a key, 0 when absent
HashMap_find(data_maps, path) ==
  IF \E k \in 1..Len(data_maps) : data_maps[k].path = path
  THEN CHOOSE k \in 1..Len(data_maps) : data_maps[k].path = path
  ELSE 0

NoMatch == [pre |-> <<>>, route |-> <<>>, post |-> <<>>, data |-> <<>>]
\* request futures that may run at the same time
MaxRequests == 2
ReqIds == 1..MaxRequests
\* a request future that was not started, or whose request and RequestInfo were dropped
NoFuture == [pc |-> "idle", context |-> None, info |-> None, sets |-> <<>>]
NoReq == [method |-> "", via |-> <<>>, shared_data_maps |-> <<>>, context |-> None,
          params |-> None]

Init ==
  /\ hyperBody \in BOOLEAN
  /\ builder = [r \in Builders |-> None]
  /\ regs = [r \in Builders |-> 0]
  /\ router = [r \in Builders |-> None]
  /\ service = None
  /\ pc = "idle"
  /\ req = NoReq
  /\ target_path = <<>>
  /\ req_info = None
  /\ matched = NoMatch
  /\ route_scope_depth = None
  /\ cursor = 0
  /\ resp = None
  /\ pending = None
  /\ result = None
  /\ log = <<>>
  /\ sent = [method |-> "", uri_path |-> <<>>]
  /\ context = <<>>
  /\ ctx_sets = <<>>
  /\ handles = [factories |-> 0, services |-> {}]
  /\ inflight = [heap |-> <<>>, reqs |-> [id \in ReqIds |-> NoFuture]]

\* the Err of the crate::Result a builder holds or build() returns: the error
\* names the path whose regex did not compile
BuilderErr(path) == [err |-> path]
IsErr(x) == "err" \in DOMAIN x

\* user-registered participants held by a builder or router record
CountOf(o) ==
  IF IsSome(o) /\ ~IsErr(Unwrap(o))
  THEN Len(Unwrap(o).pre_middlewares) + Len(Unwrap(o).routes) + Len(Unwrap(o).post_middlewares)
  ELSE 0

Participants ==
  CountOf(builder["root"]) + CountOf(builder["sub"]) + CountOf(builder["sub2"])
  + CountOf(router["root"]) + CountOf(router["sub"]) + CountOf(router["sub2"])

\* ------------------------------------------------------------ the builder

\* Router::builder(): the program works on one builder at a time, the
\* sub-routers first
Router_builder(r) ==
  /\ builder[r] = None /\ router[r] = None /\ regs[r] = 0
  /\ service = None
  /\ \A o \in Builders : builder[o] = None
  /\ r # "root" => (router["root"] = None /\ regs["root"] = 0)
  /\ builder' = [builder EXCEPT ![r] = Some(BuilderInner_default)]
  /\ UNCHANGED <<hyperBody, handles, regs, router, service>>
  /\ UNCHANGED callVars

\* the path as RouterBuilder::add stores it
add_path(path) ==
  IF Len(path) > 0 /\ (Last(path) = "/" \/ Last(path) = "*") THEN path ELSE path \o <<"/">>

\* add() that lets a later compile error take the place of the first one
add_last_error(r, path, methods) ==
  /\ IsSome(builder[r])
  /\ LET inner == Unwrap(builder[r])
         route == Route_new(add_path(path), methods, "user", <<regs[r] + 1>>)
     IN IF ~generate_exact_match_regex(add_path(path)).ok
        THEN /\ builder' = [builder EXCEPT ![r] = Some(BuilderErr(add_path(path)))]
             /\ UNCHANGED regs
        ELSE IF IsErr(inner)
        THEN UNCHANGED <<builder, regs>>
        ELSE /\ Participants < MaxParticipants
             /\ builder' = [builder EXCEPT ![r] = Some([inner EXCEPT !.routes = Append(@, route)])]
             /\ regs' = [regs EXCEPT ![r] = @ + 1]
  /\ UNCHANGED <<hyperBody, handles, router, service>>
  /\ UNCHANGED callVars

\* RouterBuilder::add (get, post, any, ... all call it): and_then skips the
\* closure when the builder holds an error, and Route::new fails when the
\* regex of the path does not compile
add(r, path, methods) ==
  /\ IsSome(builder[r])
  /\ LET inner == Unwrap(builder[r])
         route == Route_new(add_path(path), methods, "user", <<regs[r] + 1>>)
     IN IF IsErr(inner)
        THEN UNCHANGED <<builder, regs>>
        ELSE IF ~generate_exact_match_regex(add_path(path)).ok
        THEN /\ builder' = [builder EXCEPT ![r] = Some(BuilderErr(add_path(path)))]
             /\ UNCHANGED regs
        ELSE /\ Participants < MaxParticipants
             /\ builder' = [builder EXCEPT ![r] = Some([inner EXCEPT !.routes = Append(@, route)])]
             /\ regs' = [regs EXCEPT ![r] = @ + 1]
  /\ UNCHANGED <<hyperBody, handles, router, service>>
  /\ UNCHANGED callVars

\* RouterBuilder::middleware with a Middleware::Pre / Middleware::Post
middleware(r, kind, path) ==
  /\ IsSome(builder[r])
  /\ LET inner == Unwrap(builder[r])
         reg == <<regs[r] + 1>>
     IN IF IsErr(inner)
        THEN UNCHANGED <<builder, regs>>
        ELSE /\ Participants < MaxParticipants
             /\ builder' = [builder EXCEPT ![r] = Some(
                  CASE kind = "pre" ->
                         [inner EXCEPT !.pre_middlewares = Append(@, PreMiddleware_new(path, reg))]
                    [] kind = "post" ->
                         [inner EXCEPT !.post_middlewares =
                            Append(@, PostMiddleware_new(path, "user", reg))]
                    [] kind = "post_with_info" ->
                         [inner EXCEPT !.post_middlewares =
                            Append(@, PostMiddleware_new_with_info(path, reg))])]
             /\ regs' = [regs EXCEPT ![r] = @ + 1]
  /\ UNCHANGED <<hyperBody, handles, router, service>>
  /\ UNCHANGED callVars

\* RouterBuilder::err_handler / err_handler_with_info
err_handler(r, variant) ==
  /\ IsSome(builder[r])
  /\ IF IsErr(Unwrap(builder[r]))
     THEN UNCHANGED builder
     ELSE builder' = [builder EXCEPT ![r] = Some([Unwrap(builder[r]) EXCEPT
                        !.err_handler = Some([variant |-> variant, fn |-> "user"])])]
  /\ UNCHANGED <<hyperBody, handles, regs, router, service>>
  /\ UNCHANGED callVars

\* data() that starts a new map for the value on every call
RouterBuilder_data_fresh_map(r, t, v) ==
  /\ IsSome(builder[r])
  /\ LET inner == Unwrap(builder[r])
         k == HashMap_find(inner.data_maps, P_star)
         fresh == DataMap_insert(DataMap_new, t, v)
     IN builder' = [builder EXCEPT ![r] = Some(
          IF k # 0
          THEN [inner EXCEPT !.data_maps[k].arr[1] = fresh]
          ELSE [inner EXCEPT !.data_maps = Append(@, [path |-> P_star, arr |-> <<fresh>>])])]
  /\ UNCHANGED <<hyperBody, handles, regs, router, service>>
  /\ UNCHANGED callVars

\* RouterBuilder::data: the value goes into the first map of the "/*" entry
RouterBuilder_data(r, t, v) ==
  /\ IsSome(builder[r])
  /\ LET inner == Unwrap(builder[r])
         k == HashMap_find(inner.data_maps, P_star)
     IN IF IsErr(inner)
        THEN UNCHANGED builder
        ELSE builder' = [builder EXCEPT ![r] = Some(
               IF k # 0
               THEN [inner EXCEPT !.data_maps[k].arr[1] = DataMap_insert(@, t, v)]
               ELSE [inner EXCEPT !.data_maps =
                       Append(@, [path |-> P_star, arr |-> <<DataMap_insert(DataMap_new, t, v)>>])])]
  /\ UNCHANGED <<hyperBody, handles, regs, router, service>>
  /\ UNCHANGED callVars

\* Router::new
Router_new(pre_middlewares, routes, post_middlewares, scoped_data_maps, eh) ==
  [pre_middlewares |-> pre_middlewares, routes |-> routes,
   post_middlewares |-> post_middlewares, scoped_data_maps |-> scoped_data_maps,
   err_handler |-> eh, regex_set |-> None, should_gen_req_info |-> None]

\* the orders in which HashMap::into_iter may visit n entries
IterationOrders(n) ==
  {f \in [1..n -> 1..n] : \A i \in 1..n : \A j \in 1..n : f[i] = f[j] => i = j}

RECURSIVE flatten_data_maps(_, _)
\* the `.map(..).flatten()` of RouterBuilder::build over the entries visited in
\* the given order
flatten_data_maps(data_maps, order) ==
  IF order = <<>> THEN <<>>
  ELSE LET e == data_maps[Head(order)]
       IN [i \in 1..Len(e.arr) |-> ScopedDataMap_new(e.path, e.arr[i])]
          \o flatten_data_maps(data_maps, Tail(order))

\* RouterBuilder::build; order is the order in which the HashMap yields its entries
\* an error of the builder is returned in place of the router, as is the
\* error of the first ScopedDataMap::new whose path does not compile
build(r, order) ==
  /\ IsSome(builder[r])
  /\ IF IsErr(Unwrap(builder[r]))
     THEN /\ order = <<>>
          /\ router' = [router EXCEPT ![r] = builder[r]]
     ELSE /\ order \in IterationOrders(Len(Unwrap(builder[r]).data_maps))
          /\ LET inner == Unwrap(builder[r])
                 maps == flatten_data_maps(inner.data_maps, order)
                 Fails(i) == ~generate_exact_match_regex(maps[i].path).ok
             IN IF \E i \in 1..Len(maps) : Fails(i)
                THEN router' = [router EXCEPT ![r] = Some(BuilderErr(
                       maps[CHOOSE i \in 1..Len(maps) :
                              Fails(i) /\ \A j \in 1..(i - 1) : ~Fails(j)].path))]
                ELSE router' = [router EXCEPT ![r] =
                       Some(Router_new(inner.pre_middlewares, inner.routes,
                                       inner.post_middlewares, maps, inner.err_handler))]
  /\ builder' = [builder EXCEPT ![r] = None]
  /\ UNCHANGED <<hyperBody, handles, regs, service>>
  /\ UNCHANGED callVars

\* the mount prefix as RouterBuilder::scope uses it
scope_path(path) ==
  IF Len(path) > 0 /\ Last(path) = "/" THEN SubSeq(path, 1, Len(path) - 1) ELSE path

\* the participants scope() pushes to the parent, in the order it pushes them
scoped_pre_middlewares(path, sub, reg) ==
  [i \in 1..Len(sub.pre_middlewares) |->
     LET m == sub.pre_middlewares[i]
     IN PreMiddleware_new_with_boxed_handler(path \o m.path, Unwrap(m.handler),
          mounted_scope_depth(m.scope_depth), reg \o m.reg)]

\* the mounted routes keep the regex compiled for their path in the sub-router
scoped_routes_stale_regex(path, sub, reg) ==
  [i \in 1..Len(sub.routes) |->
     LET rt == sub.routes[i]
     IN [Route_new_with_boxed_handler(path \o rt.path, rt.methods, Unwrap(rt.handler),
           mounted_scope_depth(rt.scope_depth), reg \o rt.reg) EXCEPT !.regex = rt.regex]]

scoped_routes(path, sub, reg) ==
  [i \in 1..Len(sub.routes) |->
     LET rt == sub.routes[i]
     IN Route_new_with_boxed_handler(path \o rt.path, rt.methods, Unwrap(rt.handler),
          mounted_scope_depth(rt.scope_depth), reg \o rt.reg)]

scoped_post_middlewares(path, sub, reg) ==
  [i \in 1..Len(sub.post_middlewares) |->
     LET m == sub.post_middlewares[i]
     IN PostMiddleware_new_with_boxed_handler(path \o m.path, Unwrap(m.handler),
          mounted_scope_depth(m.scope_depth), reg \o m.reg)]

\* the data maps of the sub-router filed under their own path, the prefix left out
scoped_data_maps_unprefixed(path, sub) ==
  [i \in 1..Len(sub.scoped_data_maps) |->
     [path |-> sub.scoped_data_maps[i].path,
      data_map |-> Unwrap(sub.scoped_data_maps[i].data_map)]]

scoped_data_maps(path, sub) ==
  [i \in 1..Len(sub.scoped_data_maps) |->
     [path |-> path \o sub.scoped_data_maps[i].path,
      data_map |-> Unwrap(sub.scoped_data_maps[i].data_map)]]

RECURSIVE mount_data_maps(_, _)
\* the last loop of RouterBuilder::scope: each data map is pushed to the entry
\* of its new path, which is created when absent
mount_data_maps(data_maps, items) ==
  IF items = <<>> THEN data_maps
  ELSE LET it == Head(items)
           k == HashMap_find(data_maps, it.path)
           next == IF k # 0
                   THEN [data_maps EXCEPT ![k].arr = Append(@, it.data_map)]
                   ELSE Append(data_maps, [path |-> it.path, arr |-> <<it.data_map>>])
       IN mount_data_maps(next, Tail(items))

\* the paths scope() compiles anew, in the order it does
scoped_paths(path, sub) ==
  [i \in 1..Len(sub.pre_middlewares) |-> path \o sub.pre_middlewares[i].path]
  \o [i \in 1..Len(sub.routes) |-> path \o sub.routes[i].path]
  \o [i \in 1..Len(sub.post_middlewares) |-> path \o sub.post_middlewares[i].path]

\* scope() that puts the sub-router's participants in front of the parent's
scope_prepend(parent, prefix, child) ==
  /\ parent # child
  /\ IsSome(builder[parent])
  /\ IsSome(router[child])
  /\ LET inner == Unwrap(builder[parent])
         sub == Unwrap(router[child])
         path == scope_path(prefix)
         reg == <<regs[parent] + 1>>
     IN builder' = [builder EXCEPT ![parent] = Some([inner EXCEPT
          !.pre_middlewares = scoped_pre_middlewares(path, sub, reg) \o @,
          !.routes = scoped_routes(path, sub, reg) \o @,
          !.post_middlewares = scoped_post_middlewares(path, sub, reg) \o @,
          !.data_maps = mount_data_maps(@, scoped_data_maps(path, sub))])]
  /\ regs' = [regs EXCEPT ![parent] = @ + 1]
  /\ router' = [router EXCEPT ![child] = None]
  /\ UNCHANGED <<hyperBody, handles, service>>
  /\ UNCHANGED callVars

\* scope() that also takes over the error handler of the sub-router
scope_take_err_handler(parent, prefix, child) ==
  /\ parent # child
  /\ IsSome(builder[parent])
  /\ IsSome(router[child])
  /\ LET inner == Unwrap(builder[parent])
         sub == Unwrap(router[child])
         path == scope_path(prefix)
         reg == <<regs[parent] + 1>>
     IN builder' = [builder EXCEPT ![parent] = Some([inner EXCEPT
          !.pre_middlewares = @ \o scoped_pre_middlewares(path, sub, reg),
          !.routes = @ \o scoped_routes(path, sub, reg),
          !.post_middlewares = @ \o scoped_post_middlewares(path, sub, reg),
          !.data_maps = mount_data_maps(@, scoped_data_maps(path, sub)),
          !.err_handler = IF IsSome(sub.err_handler) THEN sub.err_handler ELSE @])]
  /\ regs' = [regs EXCEPT ![parent] = @ + 1]
  /\ router' = [router EXCEPT ![child] = None]
  /\ UNCHANGED <<hyperBody, handles, service>>
  /\ UNCHANGED callVars

\* RouterBuilder::scope: the sub-router is consumed; every push is an and_then
\* closure, skipped when the builder holds an error, and the first mounted
\* path whose regex does not compile leaves its error in the builder
scope(parent, prefix, child) ==
  /\ parent # child
  /\ IsSome(builder[parent])
  /\ IsSome(router[child]) /\ ~IsErr(Unwrap(router[child]))
  /\ LET inner == Unwrap(builder[parent])
         sub == Unwrap(router[child])
         path == scope_path(prefix)
         reg == <<regs[parent] + 1>>
         paths == scoped_paths(path, sub)
         Fails(i) == ~generate_exact_match_regex(paths[i]).ok
     IN IF IsErr(inner)
        THEN UNCHANGED <<builder, regs>>
        ELSE IF \E i \in 1..Len(paths) : Fails(i)
        THEN /\ builder' = [builder EXCEPT ![parent] = Some(BuilderErr(
                    paths[CHOOSE i \in 1..Len(paths) :
                            Fails(i) /\ \A j \in 1..(i - 1) : ~Fails(j)]))]
             /\ UNCHANGED regs
        ELSE /\ builder' = [builder EXCEPT ![parent] = Some([inner EXCEPT
                  !.pre_middlewares = @ \o scoped_pre_middlewares(path, sub, reg),
                  !.routes = @ \o scoped_routes(path, sub, reg),
                  !.post_middlewares = @ \o scoped_post_middlewares(path, sub, reg),
                  !.data_maps = mount_data_maps(@, scoped_data_maps(path, sub))])]
             /\ regs' = [regs EXCEPT ![parent] = @ + 1]
  /\ router' = [router EXCEPT ![child] = None]
  /\ UNCHANGED <<hyperBody, handles, service>>
  /\ UNCHANGED callVars

\* ------------------------------------------------------------ finalization

Rt == Unwrap(service)

\* most RequestServiceBuilder handles (the factory and its clones) alive
MaxFactories == 2
\* remote addresses of the connections
RemoteAddrs == {"c1", "c2"}

\* Router::init_x_powered_by_middleware
init_x_powered_by_middleware(rt, reg) ==
  [rt EXCEPT !.post_middlewares =
     <<PostMiddleware_new(P_star, "x_powered_by", reg)>> \o @]

\* finalization that adds no default OPTIONS route
init_global_options_route_skip(rt, isHyper, reg) == rt

\* Router::init_global_options_route
init_global_options_route(rt, isHyper, reg) ==
  LET found == \E i \in 1..Len(rt.routes) :
                 rt.routes[i].path = P_star /\ rt.routes[i].methods = <<"OPTIONS">>
  IN IF found THEN rt
     ELSE IF isHyper
       THEN [rt EXCEPT !.routes = Append(@, Route_new(P_star, <<"OPTIONS">>, "default_options", reg))]
       ELSE rt

\* the default catch-all registered for one method only
init_default_404_route_one_method(rt, isHyper, reg) ==
  LET found == \E i \in 1..Len(rt.routes) :
                 rt.routes[i].path = P_star /\ rt.routes[i].methods = ALL_POSSIBLE_HTTP_METHODS
  IN IF found THEN rt
     ELSE IF isHyper
       THEN [rt EXCEPT !.routes = Append(@, Route_new(P_star, <<"POST">>, "default_404", reg))]
       ELSE rt

\* Router::init_default_404_route
init_default_404_route(rt, isHyper, reg) ==
  LET found == \E i \in 1..Len(rt.routes) :
                 rt.routes[i].path = P_star /\ rt.routes[i].methods = ALL_POSSIBLE_HTTP_METHODS
  IN IF found THEN rt
     ELSE IF isHyper
       THEN [rt EXCEPT !.routes = Append(@, Route_new(P_star, ALL_POSSIBLE_HTTP_METHODS, "default_404", reg))]
       ELSE rt

\* init_err_handler that installs the default handler whatever the router holds
init_err_handler_always(rt, isHyper) ==
  IF isHyper
  THEN [rt EXCEPT !.err_handler = Some([variant |-> "WithoutInfo", fn |-> "default"])]
  ELSE rt

\* Router::init_err_handler
init_err_handler(rt, isHyper) ==
  IF IsSome(rt.err_handler) THEN rt
  ELSE IF isHyper
    THEN [rt EXCEPT !.err_handler = Some([variant |-> "WithoutInfo", fn |-> "default"])]
    ELSE rt

\* Router::init_regex_set
init_regex_set(rt) ==
  [rt EXCEPT !.regex_set = Some(
     [i \in 1..Len(rt.pre_middlewares) |-> rt.pre_middlewares[i].regex]
     \o [i \in 1..Len(rt.routes) |-> rt.routes[i].regex]
     \o [i \in 1..Len(rt.post_middlewares) |-> rt.post_middlewares[i].regex]
     \o [i \in 1..Len(rt.scoped_data_maps) |-> rt.scoped_data_maps[i].regex])]

\* the bit left false whatever the router holds
init_req_info_gen_off(rt) == [rt EXCEPT !.should_gen_req_info = Some(FALSE)]

\* the bit computed from the error handler alone
init_req_info_gen_err_handler_only(rt) ==
  [rt EXCEPT !.should_gen_req_info = Some(
     IsSome(rt.err_handler) /\ Unwrap(rt.err_handler).variant = "WithInfo")]

\* Router::init_req_info_gen
init_req_info_gen(rt) ==
  [rt EXCEPT !.should_gen_req_info = Some(
     (IsSome(rt.err_handler) /\ Unwrap(rt.err_handler).variant = "WithInfo")
     \/ \E i \in 1..Len(rt.post_middlewares) : should_require_req_meta(rt.post_middlewares[i]))]

\* the factory that compiles the RegexSet before it adds the default participants
RequestServiceBuilder_new_early_regex_set ==
  /\ IsSome(router["root"]) /\ ~IsErr(Unwrap(router["root"]))
  /\ service = None
  /\ LET n == regs["root"]
         r0 == init_regex_set(Unwrap(router["root"]))
         r1 == init_x_powered_by_middleware(r0, <<n + 1>>)
         r2 == init_global_options_route(r1, hyperBody, <<n + 2>>)
         r3 == init_default_404_route(r2, hyperBody, <<n + 3>>)
         r4 == init_err_handler(r3, hyperBody)
         r6 == init_req_info_gen(r4)
     IN service' = Some(r6)
  /\ router' = [router EXCEPT !["root"] = None]
  /\ handles' = [factories |-> 1, services |-> {}]
  /\ UNCHANGED <<hyperBody, builder, regs>>
  /\ UNCHANGED callVars

\* RequestServiceBuilder::new
RequestServiceBuilder_new ==
  /\ IsSome(router["root"]) /\ ~IsErr(Unwrap(router["root"]))
  /\ service = None
  /\ LET n == regs["root"]
         r0 == Unwrap(router["root"])
         r1 == init_x_powered_by_middleware(r0, <<n + 1>>)
         r2 == init_global_options_route(r1, hyperBody, <<n + 2>>)
         r3 == init_default_404_route(r2, hyperBody, <<n + 3>>)
         r4 == init_err_handler(r3, hyperBody)
         r5 == init_regex_set(r4)
         r6 == init_req_info_gen(r5)
     IN service' = Some(r6)
  /\ router' = [router EXCEPT !["root"] = None]
  /\ handles' = [factories |-> 1, services |-> {}]
  /\ UNCHANGED <<hyperBody, builder, regs>>
  /\ UNCHANGED callVars

\* Arc::clone: another handle to the same router
Arc_clone(rt) == rt

\* Clone of RequestServiceBuilder
RequestServiceBuilder_clone ==
  /\ IsSome(service)
  /\ handles.factories < MaxFactories
  /\ service' = Some(Arc_clone(Rt))
  /\ handles' = [handles EXCEPT !.factories = @ + 1]
  /\ UNCHANGED <<hyperBody, builder, regs, router>>
  /\ UNCHANGED callVars

\* build that finalizes the router again for the connection
RequestServiceBuilder_build_finalize(remote_addr) ==
  /\ IsSome(service)
  /\ service' = Some(init_req_info_gen(init_regex_set(
                   init_x_powered_by_middleware(Rt, <<regs["root"] + 1>>))))
  /\ handles' = [handles EXCEPT !.services = @ \cup {remote_addr}]
  /\ UNCHANGED <<hyperBody, builder, regs, router>>
  /\ UNCHANGED callVars

\* RequestServiceBuilder::build: the RequestService of one connection
RequestServiceBuilder_build(remote_addr) ==
  /\ IsSome(service)
  /\ service' = Some(Arc_clone(Rt))
  /\ handles' = [handles EXCEPT !.services = @ \cup {remote_addr}]
  /\ UNCHANGED <<hyperBody, builder, regs, router>>
  /\ UNCHANGED callVars

\* ------------------------------------------------------------ dispatch

\* helpers::percent_decode_request_path: "%2F" is the escape of "/", "%ff"
\* stands for an escape that decodes to bytes that are not UTF-8
percent_decode_request_path(val) ==
  IF \E i \in 1..Len(val) : val[i] = "%ff"
  THEN [ok |-> FALSE, val |-> <<>>]
  ELSE [ok |-> TRUE, val |-> [i \in 1..Len(val) |-> IF val[i] = "%2F" THEN "/" ELSE val[i]]]

\* the decoded path left as it is
normalize_keep(path) == path

\* the "/" suffix RequestService::call gives the decoded path
normalize(path) ==
  IF Len(path) = 0 \/ Last(path) # "/" THEN path \o <<"/">> ELSE path

\* RegexSet::matches: the indices of the matching patterns, ascending
regex_set_matches(regex_set, path) ==
  LET Hit(i) == is_match(regex_set[i], path)
  IN SelectSeq([i \in 1..Len(regex_set) |-> i], Hit)

\* Router::match_regex_set (indices are 1-based here)
match_regex_set(rt, path) ==
  LET matches == regex_set_matches(Unwrap(rt.regex_set), path)
      pre_len == Len(rt.pre_middlewares)
      routes_len == Len(rt.routes)
      post_len == Len(rt.post_middlewares)
      data_len == Len(rt.scoped_data_maps)
      InPre(i) == i <= pre_len
      InRoute(i) == i > pre_len /\ i <= pre_len + routes_len
      InPost(i) == i > pre_len + routes_len /\ i <= pre_len + routes_len + post_len
      InData(i) == i > pre_len + routes_len + post_len
                   /\ i <= pre_len + routes_len + post_len + data_len
      Sub(sq, d) == [k \in 1..Len(sq) |-> sq[k] - d]
  IN [pre |-> SelectSeq(matches, InPre),
      route |-> Sub(SelectSeq(matches, InRoute), pre_len),
      post |-> Sub(SelectSeq(matches, InPost), pre_len + routes_len),
      data |-> Sub(SelectSeq(matches, InData), pre_len + routes_len + post_len)]

RECURSIVE last_route(_, _, _, _)
\* the scan without its break: the last accepting route wins
last_route(rt, idxs, method, genuineOnly) ==
  IF idxs = <<>> THEN None
  ELSE LET route == rt.routes[Last(idxs)]
       IN IF is_match_method(route, method) /\ (~genuineOnly \/ route.path # P_star)
          THEN Some(Last(idxs))
          ELSE last_route(rt, SubSeq(idxs, 1, Len(idxs) - 1), method, genuineOnly)

RECURSIVE first_route(_, _, _, _)
\* first position k of idxs, from k on, whose route accepts (method, genuine)
first_route(rt, idxs, method, genuineOnly) ==
  IF idxs = <<>> THEN None
  ELSE LET route == rt.routes[Head(idxs)]
       IN IF is_match_method(route, method) /\ (~genuineOnly \/ route.path # P_star)
          THEN Some(Head(idxs))
          ELSE first_route(rt, Tail(idxs), method, genuineOnly)

\* the depth scan without its `route.path != "/*"` test
compute_route_scope_depth_any(rt, idxs, method) ==
  LET f == first_route(rt, idxs, method, FALSE)
  IN IF IsSome(f) THEN Some(rt.routes[Unwrap(f)].scope_depth) ELSE None

\* Router::process, lines 284-294
compute_route_scope_depth(rt, idxs, method) ==
  LET f == first_route(rt, idxs, method, TRUE)
  IN IF IsSome(f) THEN Some(rt.routes[Unwrap(f)].scope_depth) ELSE None

Ev(ev, kind, idx, arg) == [ev |-> ev, kind |-> kind, idx |-> idx, arg |-> arg]
Ok(v) == [ok |-> TRUE, val |-> v]
Err(e) == [ok |-> FALSE, val |-> e]
RouteError(kind, idx) == [kind |-> kind, idx |-> idx]

\* Clone of RequestContext: the clone of the Arc is a handle to the same cell
RequestContext_clone(ctx) == ctx

\* RequestInfo::new_from_req; ctx is the handle of the RequestContext it keeps
RequestInfo_new_from_req(method, uri, ctx) ==
  [method |-> method, uri |-> uri, shared_data_maps |-> None, context |-> ctx]

\* call that hands the request the RequestContext of the request before it
call_stale_context(method, uri_path) ==
  /\ IsSome(service)
  /\ pc \in {"idle", "done"}
  /\ LET dec == percent_decode_request_path(uri_path)
         tp == normalize(dec.val)
         m == match_regex_set(Rt, tp)
         maps == [i \in 1..Len(m.data) |-> Unwrap(Rt.scoped_data_maps[m.data[i]].data_map)]
         info0 == RequestInfo_new_from_req(method, uri_path, RequestContext_clone(1))
         info == IF maps # <<>> THEN [info0 EXCEPT !.shared_data_maps = Some(maps)] ELSE info0
     IN /\ pc' = IF dec.ok THEN "pre" ELSE "done"
        /\ result' = IF dec.ok THEN None ELSE Some(Err(RouteError("BadRequestPath", 0)))
        /\ req' = [method |-> method, via |-> <<>>,
                   shared_data_maps |-> IF dec.ok THEN maps ELSE <<>>,
                   context |-> Some(1), params |-> None]
        /\ target_path' = IF dec.ok THEN tp ELSE <<>>
        /\ req_info' = IF dec.ok /\ Unwrap(Rt.should_gen_req_info) THEN Some(info) ELSE None
        /\ matched' = IF dec.ok THEN m ELSE NoMatch
        /\ route_scope_depth' =
             IF dec.ok THEN compute_route_scope_depth(Rt, m.route, method) ELSE None
        /\ cursor' = IF dec.ok THEN 1 ELSE 0
  /\ resp' = None
  /\ pending' = None
  /\ log' = <<>>
  /\ sent' = [method |-> method, uri_path |-> uri_path]
  /\ context' = IF context = <<>> THEN <<DataMap_new>> ELSE context
  /\ ctx_sets' = <<>>
  /\ UNCHANGED <<hyperBody, handles, inflight, builder, regs, router, service>>

\* RequestService::call up to the first await of Router::process
call(method, uri_path) ==
  /\ IsSome(service)
  /\ pc \in {"idle", "done"}
  /\ LET dec == percent_decode_request_path(uri_path)
         tp == normalize(dec.val)
         m == match_regex_set(Rt, tp)
         maps == [i \in 1..Len(m.data) |-> Unwrap(Rt.scoped_data_maps[m.data[i]].data_map)]
         info0 == RequestInfo_new_from_req(method, uri_path, RequestContext_clone(1))
         info == IF maps # <<>> THEN [info0 EXCEPT !.shared_data_maps = Some(maps)] ELSE info0
     IN IF ~dec.ok
        THEN /\ pc' = "done"
             /\ result' = Some(Err(RouteError("BadRequestPath", 0)))
             /\ req' = [method |-> method, via |-> <<>>, shared_data_maps |-> <<>>,
                        context |-> None, params |-> None]
             /\ context' = <<>>
             /\ target_path' = <<>>
             /\ req_info' = None
             /\ matched' = NoMatch
             /\ route_scope_depth' = None
             /\ cursor' = 0
        ELSE /\ pc' = "pre"
             /\ result' = None
             /\ req' = [method |-> method, via |-> <<>>, shared_data_maps |-> maps,
                        context |-> Some(1), params |-> None]
             /\ context' = <<DataMap_new>>
             /\ target_path' = tp
             /\ req_info' = IF Unwrap(Rt.should_gen_req_info) THEN Some(info) ELSE None
             /\ matched' = m
             /\ route_scope_depth' = compute_route_scope_depth(Rt, m.route, method)
             /\ cursor' = 1
  /\ resp' = None
  /\ pending' = None
  /\ log' = <<>>
  /\ sent' = [method |-> method, uri_path |-> uri_path]
  /\ ctx_sets' = <<>>
  /\ UNCHANGED <<hyperBody, handles, inflight, builder, regs, router, service>>

\* RequestService::call on the RequestService built for a connection
RequestService_call(remote_addr, method, uri_path) ==
  /\ remote_addr \in handles.services
  /\ call(method, uri_path)

\* ------------------------------------------------------------ the executor

NoErr == RouteError("", 0)
Awaiting(kind, idx, after, err) == [kind |-> kind, idx |-> idx, after |-> after, err |-> err]
Response(status, kind, idx, err) ==
  [status |-> status, kind |-> kind, idx |-> idx, err |-> err, via |-> <<>>]

\* the depth gate of Router::execute_pre_middleware
pre_depth_admits(m, depth) ==
  depth = None \/ m.scope_depth <= Unwrap(depth)

\* the depth gate of the post-middleware loop of Router::process
post_depth_admits(m, depth) ==
  depth = None \/ m.scope_depth <= Unwrap(depth)

\* on_error whose arm without an error handler swallows the error and answers
\* with an empty 500 response
on_error_swallow(err, after, lg) ==
  IF IsSome(Rt.err_handler)
  THEN /\ pc' = "err_await"
       /\ pending' = Some(Awaiting("err", 0, after, err))
       /\ log' = Append(lg, Ev("start", "err", 0, err))
       /\ result' = result
  ELSE /\ pc' = "done"
       /\ pending' = None
       /\ log' = lg
       /\ result' = Some(Ok(Response(500, "err", 0, err)))

\* the `if let Some(ref err_handler) = self.err_handler { .. } else { return Err(err) }`
\* arms of Router::process and Router::execute_pre_middleware, with the start
\* of ErrHandler::execute; lg is the log so far
on_error(err, after, lg) ==
  IF IsSome(Rt.err_handler)
  THEN IF Unwrap(Rt.err_handler).variant = "WithInfo" /\ req_info = None
       THEN /\ pc' = "panic"
            /\ pending' = None
            /\ log' = lg
            /\ result' = result
       ELSE /\ pc' = "err_await"
            /\ pending' = Some(Awaiting("err", 0, after, err))
            /\ log' = Append(lg, Ev("start", "err", 0, err))
            /\ result' = result
  ELSE /\ pc' = "done"
       /\ pending' = None
       /\ log' = lg
       /\ result' = Some(Err(err))

\* pre_next with the await dropped: an admitted pre-middleware is started and
\* the loop moves on without waiting for it
pre_next_no_await ==
  /\ pc = "pre"
  /\ IF cursor > Len(matched.pre)
     THEN /\ pc' = "route"
          /\ UNCHANGED <<cursor, log>>
     ELSE LET idx == matched.pre[cursor]
              m == Rt.pre_middlewares[idx]
          IN /\ cursor' = cursor + 1
             /\ pc' = pc
             /\ log' = IF pre_depth_admits(m, route_scope_depth)
                       THEN Append(log, Ev("start", "pre", idx, req))
                       ELSE log
  /\ UNCHANGED <<req, target_path, req_info, matched, route_scope_depth, resp, result, pending>>
  /\ UNCHANGED <<hyperBody, handles, inflight, builder, regs, router, service, sent, context, ctx_sets>>

\* head of the loop of Router::execute_pre_middleware
pre_next ==
  /\ pc = "pre"
  /\ IF cursor > Len(matched.pre)
     THEN /\ pc' = "route"
          /\ UNCHANGED <<cursor, pending, log>>
     ELSE LET idx == matched.pre[cursor]
              m == Rt.pre_middlewares[idx]
          IN IF pre_depth_admits(m, route_scope_depth)
             THEN IF IsSome(m.handler)
                  THEN /\ pc' = "pre_await"
                       /\ pending' = Some(Awaiting("pre", idx, "", NoErr))
                       /\ log' = Append(log, Ev("start", "pre", idx, req))
                       /\ UNCHANGED cursor
                  ELSE /\ pc' = "panic"
                       /\ UNCHANGED <<cursor, pending, log>>
             ELSE /\ cursor' = cursor + 1
                  /\ UNCHANGED <<pc, pending, log>>
  /\ UNCHANGED <<req, target_path, req_info, matched, route_scope_depth, resp, result>>
  /\ UNCHANGED <<hyperBody, handles, inflight, builder, regs, router, service, sent, context, ctx_sets>>

\* pre_done that drops the request the pre-middleware returned and goes on
\* with the one it was given
pre_done_discard(ok, method) ==
  /\ pc = "pre_await"
  /\ LET idx == Unwrap(pending).idx
         out == [req EXCEPT !.method = method, !.via = Append(@, idx)]
         err == RouteError("pre", idx)
     IN IF ok
        THEN /\ req' = req
             /\ cursor' = cursor + 1
             /\ pc' = "pre"
             /\ pending' = None
             /\ log' = Append(log, Ev("end", "pre", idx, Ok(out)))
             /\ UNCHANGED result
        ELSE /\ on_error(err, "pre", Append(log, Ev("end", "pre", idx, Err(err))))
             /\ UNCHANGED <<req, cursor>>
  /\ UNCHANGED <<target_path, req_info, matched, route_scope_depth, resp>>
  /\ UNCHANGED <<hyperBody, handles, inflight, builder, regs, router, service, sent, context, ctx_sets>>

\* a pre-middleware handler returns: Ok with the same or a derived request, or Err
pre_done(ok, method) ==
  /\ pc = "pre_await"
  /\ LET idx == Unwrap(pending).idx
         out == [req EXCEPT !.method = method, !.via = Append(@, idx)]
         err == RouteError("pre", idx)
     IN IF ok
        THEN /\ req' = out
             /\ cursor' = cursor + 1
             /\ pc' = "pre"
             /\ pending' = None
             /\ log' = Append(log, Ev("end", "pre", idx, Ok(out)))
             /\ UNCHANGED result
        ELSE /\ on_error(err, "pre", Append(log, Ev("end", "pre", idx, Err(err))))
             /\ UNCHANGED <<req, cursor>>
  /\ UNCHANGED <<target_path, req_info, matched, route_scope_depth, resp>>
  /\ UNCHANGED <<hyperBody, handles, inflight, builder, regs, router, service, sent, context, ctx_sets>>

\* route_next that hands the missing route to the error handler
route_next_no_route_handled ==
  /\ pc = "route"
  /\ LET f == first_route(Rt, matched.route, req.method, FALSE)
     IN IF IsSome(f)
        THEN IF IsSome(Rt.routes[Unwrap(f)].handler)
             THEN /\ pc' = "route_await"
                  /\ pending' = Some(Awaiting("route", Unwrap(f), "", NoErr))
                  /\ log' = Append(log, Ev("start", "route", Unwrap(f),
                                process_route_req(Rt.routes[Unwrap(f)], target_path, req)))
                  /\ UNCHANGED result
             ELSE /\ pc' = "panic"
                  /\ UNCHANGED <<pending, log, result>>
        ELSE on_error(RouteError("NoRouteMatched", 0), "route", log)
  /\ UNCHANGED <<req, target_path, req_info, matched, route_scope_depth, cursor, resp>>
  /\ UNCHANGED <<hyperBody, handles, inflight, builder, regs, router, service, sent, context, ctx_sets>>

\* the route loop of Router::process: the first matched route that accepts
\* the method of the transformed request is executed
route_next ==
  /\ pc = "route"
  /\ LET f == first_route(Rt, matched.route, req.method, FALSE)
     IN IF IsSome(f)
        THEN IF IsSome(Rt.routes[Unwrap(f)].handler)
             THEN /\ pc' = "route_await"
                  /\ pending' = Some(Awaiting("route", Unwrap(f), "", NoErr))
                  /\ log' = Append(log, Ev("start", "route", Unwrap(f),
                                process_route_req(Rt.routes[Unwrap(f)], target_path, req)))
                  /\ UNCHANGED result
             ELSE /\ pc' = "panic"
                  /\ UNCHANGED <<pending, log, result>>
        ELSE /\ pc' = "done"
             /\ result' = Some(Err(RouteError("NoRouteMatched", 0)))
             /\ UNCHANGED <<pending, log>>
  /\ UNCHANGED <<req, target_path, req_info, matched, route_scope_depth, cursor, resp>>
  /\ UNCHANGED <<hyperBody, handles, inflight, builder, regs, router, service, sent, context, ctx_sets>>

\* what a route handler may return
route_outcomes(fn, idx) ==
  CASE fn = "default_options" -> {Ok(Response(204, "route", idx, NoErr))}
    [] fn = "default_404" -> {Ok(Response(404, "route", idx, NoErr))}
    [] OTHER -> {Ok(Response(200, "route", idx, NoErr)), Err(RouteError("route", idx))}

\* route_done that returns the route's error without asking the error handler
route_done_unhandled(out) ==
  /\ pc = "route_await"
  /\ LET idx == Unwrap(pending).idx
     IN /\ out \in route_outcomes(Unwrap(Rt.routes[idx].handler), idx)
        /\ log' = Append(log, Ev("end", "route", idx, out))
        /\ pending' = None
        /\ IF out.ok
           THEN /\ resp' = Some(out.val)
                /\ pc' = "post"
                /\ cursor' = 1
                /\ UNCHANGED result
           ELSE /\ pc' = "done"
                /\ result' = Some(out)
                /\ UNCHANGED <<resp, cursor>>
  /\ UNCHANGED <<req, target_path, req_info, matched, route_scope_depth>>
  /\ UNCHANGED <<hyperBody, handles, inflight, builder, regs, router, service, sent, context, ctx_sets>>

route_done(out) ==
  /\ pc = "route_await"
  /\ LET idx == Unwrap(pending).idx
     IN /\ out \in route_outcomes(Unwrap(Rt.routes[idx].handler), idx)
        /\ IF out.ok
           THEN /\ resp' = Some(out.val)
                /\ pc' = "post"
                /\ cursor' = 1
                /\ pending' = None
                /\ log' = Append(log, Ev("end", "route", idx, out))
                /\ UNCHANGED result
           ELSE /\ on_error(out.val, "route", Append(log, Ev("end", "route", idx, out)))
                /\ UNCHANGED <<resp, cursor>>
  /\ UNCHANGED <<req, target_path, req_info, matched, route_scope_depth>>
  /\ UNCHANGED <<hyperBody, handles, inflight, builder, regs, router, service, sent, context, ctx_sets>>

\* err_done that falls through to the route loop after a pre-middleware failure
err_done_then_route ==
  /\ pc = "err_await"
  /\ LET p == Unwrap(pending)
         r == Response(500, "err", 0, p.err)
     IN /\ log' = Append(log, Ev("end", "err", 0, Ok(r)))
        /\ IF p.after = "post"
           THEN /\ pc' = "done"
                /\ result' = Some(Ok(r))
                /\ UNCHANGED <<resp, cursor>>
           ELSE /\ pc' = IF p.after = "pre" THEN "route" ELSE "post"
                /\ resp' = Some(r)
                /\ cursor' = 1
                /\ UNCHANGED result
  /\ pending' = None
  /\ UNCHANGED <<req, target_path, req_info, matched, route_scope_depth>>
  /\ UNCHANGED <<hyperBody, handles, inflight, builder, regs, router, service, sent, context, ctx_sets>>

\* err_done that resumes the post-middleware loop after a post-middleware failure
err_done_resume_posts ==
  /\ pc = "err_await"
  /\ LET p == Unwrap(pending)
         r == Response(500, "err", 0, p.err)
     IN /\ log' = Append(log, Ev("end", "err", 0, Ok(r)))
        /\ pc' = "post"
        /\ resp' = Some(r)
        /\ cursor' = IF p.after = "post" THEN cursor + 1 ELSE 1
        /\ UNCHANGED result
  /\ pending' = None
  /\ UNCHANGED <<req, target_path, req_info, matched, route_scope_depth>>
  /\ UNCHANGED <<hyperBody, handles, inflight, builder, regs, router, service, sent, context, ctx_sets>>

\* the error handler returns its response
err_done ==
  /\ pc = "err_await"
  /\ LET p == Unwrap(pending)
         status == 500
         r == Response(status, "err", 0, p.err)
     IN /\ log' = Append(log, Ev("end", "err", 0, Ok(r)))
        /\ IF p.after = "post"
           THEN /\ pc' = "done"
                /\ result' = Some(Ok(r))
                /\ UNCHANGED <<resp, cursor>>
           ELSE /\ pc' = "post"
                /\ resp' = Some(r)
                /\ cursor' = 1
                /\ UNCHANGED result
  /\ pending' = None
  /\ UNCHANGED <<req, target_path, req_info, matched, route_scope_depth>>
  /\ UNCHANGED <<hyperBody, handles, inflight, builder, regs, router, service, sent, context, ctx_sets>>

\* head of the post-middleware loop of Router::process
post_next ==
  /\ pc = "post"
  /\ IF cursor > Len(matched.post)
     THEN /\ pc' = "done"
          /\ result' = Some(Ok(Unwrap(resp)))
          /\ UNCHANGED <<cursor, pending, log>>
     ELSE LET idx == matched.post[cursor]
              m == Rt.post_middlewares[idx]
          IN IF post_depth_admits(m, route_scope_depth)
             THEN IF IsSome(m.handler)
                     /\ (Unwrap(m.handler).variant = "WithInfo" => IsSome(req_info))
                  THEN /\ pc' = "post_await"
                       /\ pending' = Some(Awaiting("post", idx, "", NoErr))
                       /\ log' = Append(log, Ev("start", "post", idx, Unwrap(resp)))
                       /\ UNCHANGED <<cursor, result>>
                  ELSE /\ pc' = "panic"
                       /\ UNCHANGED <<cursor, pending, log, result>>
             ELSE /\ cursor' = cursor + 1
                  /\ UNCHANGED <<pc, pending, log, result>>
  /\ UNCHANGED <<req, target_path, req_info, matched, route_scope_depth, resp>>
  /\ UNCHANGED <<hyperBody, handles, inflight, builder, regs, router, service, sent, context, ctx_sets>>

\* post_done that sends a post-middleware that returned through the loop a
\* second time
post_done_again(ok) ==
  /\ pc = "post_await"
  /\ LET idx == Unwrap(pending).idx
         fn == Unwrap(Rt.post_middlewares[idx].handler).fn
         out == [Unwrap(resp) EXCEPT !.via = Append(@, idx)]
         err == RouteError("post", idx)
         Ran(e) == e.ev = "start" /\ e.kind = "post" /\ e.idx = idx
     IN /\ fn = "x_powered_by" => ok
        /\ IF ok
           THEN /\ resp' = Some(out)
                /\ cursor' = IF Len(SelectSeq(log, Ran)) < 2 THEN cursor ELSE cursor + 1
                /\ pc' = "post"
                /\ pending' = None
                /\ log' = Append(log, Ev("end", "post", idx, Ok(out)))
                /\ UNCHANGED result
           ELSE /\ on_error(err, "post", Append(log, Ev("end", "post", idx, Err(err))))
                /\ UNCHANGED <<resp, cursor>>
  /\ UNCHANGED <<req, target_path, req_info, matched, route_scope_depth>>
  /\ UNCHANGED <<hyperBody, handles, inflight, builder, regs, router, service, sent, context, ctx_sets>>

\* a post-middleware handler returns
post_done(ok) ==
  /\ pc = "post_await"
  /\ LET idx == Unwrap(pending).idx
         fn == Unwrap(Rt.post_middlewares[idx].handler).fn
         out == [Unwrap(resp) EXCEPT !.via = Append(@, idx)]
         err == RouteError("post", idx)
     IN /\ fn = "x_powered_by" => ok
        /\ IF ok
           THEN /\ resp' = Some(out)
                /\ cursor' = cursor + 1
                /\ pc' = "post"
                /\ pending' = None
                /\ log' = Append(log, Ev("end", "post", idx, Ok(out)))
                /\ UNCHANGED result
           ELSE /\ on_error(err, "post", Append(log, Ev("end", "post", idx, Err(err))))
                /\ UNCHANGED <<resp, cursor>>
  /\ UNCHANGED <<req, target_path, req_info, matched, route_scope_depth>>
  /\ UNCHANGED <<hyperBody, handles, inflight, builder, regs, router, service, sent, context, ctx_sets>>

\* ------------------------------------------------- data and context access

\* most set_context calls the handlers of one request make
MaxContextSets == 2

\* the lookup that asks the first attached map only
first_data_head_only(shared_data_maps, t) ==
  IF shared_data_maps = <<>> THEN None ELSE DataMap_get(Head(shared_data_maps), t)

RECURSIVE first_data(_, _)
\* the scan of a shared-data-map list: the first map that holds a value of the type
first_data(shared_data_maps, t) ==
  IF shared_data_maps = <<>> THEN None
  ELSE IF IsSome(DataMap_get(Head(shared_data_maps), t))
       THEN DataMap_get(Head(shared_data_maps), t)
       ELSE first_data(Tail(shared_data_maps), t)

\* RequestExt::data on the request a pre-middleware or route handler holds
RequestExt_data(request, t) == first_data(request.shared_data_maps, t)

\* the accessor that scans the attached maps from the last to the first
RequestInfo_data_last_first(info, t) ==
  IF IsSome(info.shared_data_maps)
  THEN LET maps == Unwrap(info.shared_data_maps)
       IN first_data([i \in 1..Len(maps) |-> maps[Len(maps) + 1 - i]], t)
  ELSE None

\* RequestInfo::data
RequestInfo_data(info, t) ==
  IF IsSome(info.shared_data_maps) THEN first_data(Unwrap(info.shared_data_maps), t) ELSE None

\* RequestContext::get on the cell a handle points to
RequestContext_get(ctx, t) == DataMap_get(context[ctx], t)

\* RequestExt::context on the request a pre-middleware or route handler holds
RequestExt_context(request, t) == RequestContext_get(Unwrap(request.context), t)

\* the accessor that answers from the context as it was when the RequestInfo
\* was created
RequestInfo_context_at_creation(info, t) == DataMap_get(DataMap_new, t)

\* RequestInfo::context
RequestInfo_context(info, t) == RequestContext_get(info.context, t)

\* RequestExt::set_context, called by the pre-middleware or route handler that
\* is running
set_context(t, v) ==
  /\ pc \in {"pre_await", "route_await"}
  /\ pc = "route_await" => Unwrap(Rt.routes[Unwrap(pending).idx].handler) = "user"
  /\ Len(ctx_sets) < MaxContextSets
  /\ context' = [context EXCEPT ![Unwrap(req.context)] = DataMap_insert(@, t, v)]
  /\ ctx_sets' = Append(ctx_sets, <<t, v, Unwrap(pending).kind>>)
  /\ UNCHANGED <<pc, req, target_path, req_info, matched, route_scope_depth, cursor,
                 resp, pending, result, log, sent>>
  /\ UNCHANGED <<hyperBody, handles, inflight, builder, regs, router, service>>

\* ------------------------------------------------ requests side by side

\* everything but the request futures that run side by side
soloVars == <<hyperBody, builder, regs, router, service, pc, req, target_path, req_info,
              matched, route_scope_depth, cursor, resp, pending, result, log, sent,
              context, ctx_sets, handles>>

\* Arc::new: the cell gets an address no live cell has
fresh_handle(heap) ==
  CHOOSE h \in 1..(MaxRequests + 1) :
    h \notin DOMAIN heap /\ \A g \in 1..(h - 1) : g \in DOMAIN heap

\* RequestContext::get on a cell of the heap the futures share
RequestContext_get_in(heap, ctx, t) == DataMap_get(heap[ctx], t)

\* call that hands every request the one RequestContext kept with the service
call_concurrent_shared_context(id, uri_path) ==
  /\ IsSome(service)
  /\ inflight.reqs[id].pc = "idle"
  /\ LET dec == percent_decode_request_path(uri_path)
         h == 1
         info == RequestInfo_new_from_req("GET", uri_path, RequestContext_clone(h))
     IN IF ~dec.ok
        THEN UNCHANGED inflight
        ELSE inflight' =
               [heap |-> [g \in DOMAIN inflight.heap \cup {h} |->
                            IF g \in DOMAIN inflight.heap THEN inflight.heap[g] ELSE DataMap_new],
                reqs |-> [inflight.reqs EXCEPT ![id] =
                            [pc |-> "running", context |-> Some(h),
                             info |-> IF Unwrap(Rt.should_gen_req_info) THEN Some(info) ELSE None,
                             sets |-> <<>>]]]
  /\ UNCHANGED soloVars

\* RequestService::call for one of the futures that run side by side: a request
\* with a bad path is rejected before a RequestContext is made
call_concurrent(id, uri_path) ==
  /\ IsSome(service)
  /\ inflight.reqs[id].pc = "idle"
  /\ LET dec == percent_decode_request_path(uri_path)
         h == fresh_handle(inflight.heap)
         info == RequestInfo_new_from_req("GET", uri_path, RequestContext_clone(h))
     IN IF ~dec.ok
        THEN UNCHANGED inflight
        ELSE inflight' =
               [heap |-> [g \in DOMAIN inflight.heap \cup {h} |->
                            IF g = h THEN DataMap_new ELSE inflight.heap[g]],
                reqs |-> [inflight.reqs EXCEPT ![id] =
                            [pc |-> "running", context |-> Some(h),
                             info |-> IF Unwrap(Rt.should_gen_req_info) THEN Some(info) ELSE None,
                             sets |-> <<>>]]]
  /\ UNCHANGED soloVars

\* RequestExt::set_context, called by a handler of the request of future id
set_context_concurrent(id, t, v) ==
  /\ inflight.reqs[id].pc = "running"
  /\ Len(inflight.reqs[id].sets) < MaxContextSets
  /\ inflight' = [heap |-> [inflight.heap EXCEPT ![Unwrap(inflight.reqs[id].context)] =
                              DataMap_insert(@, t, v)],
                  reqs |-> [inflight.reqs EXCEPT ![id].sets = Append(@, <<t, v>>)]]
  /\ UNCHANGED soloVars

\* the future of RequestService::call completes: the request and the
\* RequestInfo are dropped, and with the last Arc the cell of the context
future_done(id) ==
  /\ inflight.reqs[id].pc = "running"
  /\ LET h == Unwrap(inflight.reqs[id].context)
         left == [inflight.reqs EXCEPT ![id] = NoFuture]
         held == \E o \in ReqIds : left[o].context = Some(h)
     IN inflight' = [heap |-> [g \in DOMAIN inflight.heap \ (IF held THEN {} ELSE {h}) |->
                                inflight.heap[g]],
                     reqs |-> left]
  /\ UNCHANGED soloVars

\* --------------------------------------------------------- specification

Next ==
  \/ \E r \in RouterIds : Router_builder(r)
  \/ \E r \in RouterIds : \E a \in AddRoutes(r) : add(r, a[1], a[2])
  \/ \E r \in RouterIds : \E kind \in {"pre", "post", "post_with_info"} :
       \E path \in MiddlewarePaths : middleware(r, kind, path)
  \/ \E r \in RouterIds : \E variant \in {"WithoutInfo", "WithInfo"} : err_handler(r, variant)
  \/ \E r \in RouterIds : \E order \in IterationOrders(0) : build(r, order)
  \/ \E prefix \in ScopePaths : scope("root", prefix, "sub")
  \/ RequestServiceBuilder_new
  \/ \E method \in ReqMethods : \E uri_path \in ReqPaths : call(method, uri_path)
  \/ pre_next
  \/ \E ok \in BOOLEAN : \E method \in ReqMethods : pre_done(ok, method)
  \/ route_next
  \/ \E out \in {Ok(Response(s, "route", i, NoErr)) : s \in {200, 204, 404}, i \in 1..(MaxParticipants + 2)}
                \cup {Err(RouteError("route", i)) : i \in 1..(MaxParticipants + 2)} : route_done(out)
  \/ err_done
  \/ post_next
  \/ \E ok \in BOOLEAN : post_done(ok)

Spec == Init /\ [][Next]_vars

\* the outcomes a route handler may be given to return
RouteOutcomes ==
  {Ok(Response(st, "route", i, NoErr)) : st \in {200, 204, 404}, i \in 1..(MaxParticipants + 2)}
  \cup {Err(RouteError("route", i)) : i \in 1..(MaxParticipants + 2)}

\* the same program on the inputs that exercise the default routes, OPTIONS
\* requests and request paths with and without a trailing slash
DispatchNext ==
  \/ \E r \in RouterIds : Router_builder(r)
  \/ \E r \in RouterIds : \E a \in DispatchRoutes(r) : add(r, a[1], a[2])
  \/ \E r \in RouterIds : middleware(r, "pre", P_star)
  \/ \E r \in RouterIds : \E order \in IterationOrders(0) : build(r, order)
  \/ \E prefix \in ScopePaths : scope("root", prefix, "sub")
  \/ RequestServiceBuilder_new
  \/ \E method \in DispatchMethods : \E uri_path \in DispatchPaths : call(method, uri_path)
  \/ pre_next
  \/ \E ok \in BOOLEAN : \E method \in DispatchMethods : pre_done(ok, method)
  \/ route_next
  \/ \E out \in RouteOutcomes : route_done(out)
  \/ err_done
  \/ post_next
  \/ \E ok \in BOOLEAN : post_done(ok)

DispatchSpec == Init /\ [][DispatchNext]_vars

\* the same program on the inputs that exercise data(): a root router with two
\* sibling sub-routers, each with data of its own
DataNext ==
  \/ \E r \in Builders : Router_builder(r)
  \/ \E r \in {"sub", "sub2"} : add(r, P_l, <<"GET">>)
  \/ \E kind \in {"pre", "post"} : middleware("sub", kind, P_star)
  \/ err_handler("root", "WithInfo")
  \/ \E r \in Builders : \E d \in DataValues(r) : RouterBuilder_data(r, d[1], d[2])
  \/ \E r \in Builders : \E n \in 0..MaxDataKeys : \E order \in IterationOrders(n) : build(r, order)
  \/ \E sc \in DataScopes : scope("root", sc[1], sc[2])
  \/ RequestServiceBuilder_new
  \/ \E uri_path \in DataPaths : call("GET", uri_path)
  \/ pre_next
  \/ \E ok \in BOOLEAN : pre_done(ok, "GET")
  \/ route_next
  \/ \E out \in RouteOutcomes : route_done(out)
  \/ err_done
  \/ post_next
  \/ \E ok \in BOOLEAN : post_done(ok)

DataSpec == Init /\ [][DataNext]_vars

\* the same program with a single router, on the inputs that exercise repeated
\* data() calls and the request context
ContextNext ==
  \/ Router_builder("root")
  \/ add("root", P_al, <<"GET">>)
  \/ \E kind \in {"pre", "post_with_info"} : middleware("root", kind, P_star)
  \/ err_handler("root", "WithInfo")
  \/ \E d \in RepeatedDataValues : RouterBuilder_data("root", d[1], d[2])
  \/ \E n \in 0..1 : \E order \in IterationOrders(n) : build("root", order)
  \/ RequestServiceBuilder_new
  \/ \E uri_path \in {P_al, P_x} : call("GET", uri_path)
  \/ pre_next
  \/ \E ok \in BOOLEAN : pre_done(ok, "GET")
  \/ route_next
  \/ \E out \in RouteOutcomes : route_done(out)
  \/ \E t \in DataTypes : \E v \in {1, 2} : set_context(t, v)
  \/ err_done
  \/ post_next
  \/ \E ok \in BOOLEAN : post_done(ok)

ContextSpec == Init /\ [][ContextNext]_vars

\* the same program with a single router, on the inputs that exercise route
\* parameters
ParamNext ==
  \/ Router_builder("root")
  \/ \E path \in ParamRoutes : add("root", path, <<"GET">>)
  \/ middleware("root", "pre", P_star)
  \/ \E order \in IterationOrders(0) : build("root", order)
  \/ RequestServiceBuilder_new
  \/ \E uri_path \in ParamPaths : call("GET", uri_path)
  \/ pre_next
  \/ \E ok \in BOOLEAN : pre_done(ok, "GET")
  \/ route_next
  \/ \E out \in RouteOutcomes : route_done(out)
  \/ err_done
  \/ post_next
  \/ \E ok \in BOOLEAN : post_done(ok)

ParamSpec == Init /\ [][ParamNext]_vars

\* the same program with a single router whose one pre-middleware is given a
\* path of its own (Middleware::pre_with_path), any of the patterns
CompileNext ==
  \/ Router_builder("root")
  \/ add("root", P_al, <<"GET">>)
  \/ /\ IsSome(builder["root"]) /\ Unwrap(builder["root"]).pre_middlewares = <<>>
     /\ \E path \in CompilePaths : middleware("root", "pre", path)
  \/ \E order \in IterationOrders(0) : build("root", order)
  \/ RequestServiceBuilder_new
  \/ \E uri_path \in {P_al, P_x} : call("GET", uri_path)
  \/ pre_next
  \/ \E ok \in BOOLEAN : pre_done(ok, "GET")
  \/ route_next
  \/ \E out \in RouteOutcomes : route_done(out)
  \/ err_done
  \/ post_next
  \/ \E ok \in BOOLEAN : post_done(ok)

CompileSpec == Init /\ [][CompileNext]_vars

\* the same program with its service factory cloned and one RequestService
\* built per connection
FactoryNext ==
  \/ \E r \in RouterIds : Router_builder(r)
  \/ \E r \in RouterIds : \E a \in AddRoutes(r) : add(r, a[1], a[2])
  \/ \E kind \in {"pre", "post_with_info"} : middleware("root", kind, P_star)
  \/ \E r \in RouterIds : \E order \in IterationOrders(0) : build(r, order)
  \/ \E prefix \in ScopePaths : scope("root", prefix, "sub")
  \/ RequestServiceBuilder_new
  \/ RequestServiceBuilder_clone
  \/ \E remote_addr \in RemoteAddrs : RequestServiceBuilder_build(remote_addr)
  \/ \E remote_addr \in RemoteAddrs : \E uri_path \in {P_al, P_bad} :
       RequestService_call(remote_addr, "GET", uri_path)
  \/ pre_next
  \/ \E ok \in BOOLEAN : pre_done(ok, "GET")
  \/ route_next
  \/ \E out \in RouteOutcomes : route_done(out)
  \/ err_done
  \/ post_next
  \/ \E ok \in BOOLEAN : post_done(ok)

FactorySpec == Init /\ [][FactoryNext]_vars

\* the builder and the factory alone, on registration paths with and without
\* a trailing slash
PathNext ==
  \/ \E r \in RouterIds : Router_builder(r)
  \/ \E r \in RouterIds : \E path \in {P_a, P_a_slash, P_star} : add(r, path, <<"GET">>)
  \/ \E r \in RouterIds : \E kind \in {"pre", "post", "post_with_info"} :
       \E path \in {P_a, P_a_slash, P_star} : middleware(r, kind, path)
  \/ \E r \in RouterIds : \E d \in DataValues(r) : RouterBuilder_data(r, d[1], d[2])
  \/ \E r \in RouterIds : \E n \in 0..MaxDataKeys : \E order \in IterationOrders(n) :
       build(r, order)
  \/ \E prefix \in {P_a, P_a_slash} : scope("root", prefix, "sub")
  \/ RequestServiceBuilder_new

PathSpec == Init /\ [][PathNext]_vars

\* the builder and the factory alone, with a sub-router mounted in a sub-router
\* that is mounted in the root
NestNext ==
  \/ \E r \in Builders : Router_builder(r)
  \/ \E r \in Builders : add(r, P_l, <<"GET">>)
  \/ \E r \in Builders : \E kind \in {"pre", "post"} : middleware(r, kind, P_star)
  \/ \E r \in Builders : \E order \in IterationOrders(0) : build(r, order)
  \/ \E parent \in {"root", "sub"} : \E child \in {"sub", "sub2"} :
       \E prefix \in {P_a, P_b} : scope(parent, prefix, child)
  \/ RequestServiceBuilder_new

NestSpec == Init /\ [][NestNext]_vars

\* the same program with a single router and request futures that run side by side
ConcurrentNext ==
  \/ Router_builder("root")
  \/ add("root", P_al, <<"GET">>)
  \/ middleware("root", "post_with_info", P_star)
  \/ \E order \in IterationOrders(0) : build("root", order)
  \/ RequestServiceBuilder_new
  \/ \E id \in ReqIds : \E uri_path \in {P_al, P_bad} : call_concurrent(id, uri_path)
  \/ \E id \in ReqIds : \E t \in DataTypes : \E v \in {1, 2} : set_context_concurrent(id, t, v)
  \/ \E id \in ReqIds : future_done(id)

ConcurrentSpec == Init /\ [][ConcurrentNext]_vars

\* the same program with a single router, where the steps of Router::process
\* go on and every participant that was invoked returns
LiveNext ==
  \/ Router_builder("root")
  \/ \E path \in {P_al, P_star} : add("root", path, <<"GET">>)
  \/ \E kind \in {"pre", "post"} : middleware("root", kind, P_star)
  \/ err_handler("root", "WithoutInfo")
  \/ \E order \in IterationOrders(0) : build("root", order)
  \/ RequestServiceBuilder_new
  \/ \E uri_path \in {P_al, P_x, P_bad} : call("GET", uri_path)
  \/ pre_next
  \/ \E ok \in BOOLEAN : pre_done(ok, "GET")
  \/ route_next
  \/ \E out \in RouteOutcomes : route_done(out)
  \/ err_done
  \/ post_next
  \/ \E ok \in BOOLEAN : post_done(ok)

LiveSpec ==
  /\ Init /\ [][LiveNext]_vars
  /\ WF_vars(pre_next) /\ WF_vars(\E ok \in BOOLEAN : pre_done(ok, "GET"))
  /\ WF_vars(route_next) /\ WF_vars(\E out \in RouteOutcomes : route_done(out))
  /\ WF_vars(err_done)
  /\ WF_vars(post_next) /\ WF_vars(\E ok \in BOOLEAN : post_done(ok))

\* the builder and the factory alone, on inputs among which are paths whose
\* regex does not compile
BuildErrNext ==
  \/ \E r \in RouterIds : Router_builder(r)
  \/ add("sub", P_l, <<"GET">>)
  \/ \E path \in {P_al, P_long, P_longer} : add("root", path, <<"GET">>)
  \/ \E kind \in {"pre", "post"} : middleware("root", kind, P_star)
  \/ \E variant \in {"WithoutInfo", "WithInfo"} : err_handler("root", variant)
  \/ \E d \in RepeatedDataValues : RouterBuilder_data("root", d[1], d[2])
  \/ \E r \in RouterIds : \E n \in 0..1 : \E order \in IterationOrders(n) : build(r, order)
  \/ \E prefix \in {P_a, P_long} : scope("root", prefix, "sub")
  \/ RequestServiceBuilder_new

BuildErrSpec == Init /\ [][BuildErrNext]_vars

\* ------------------------------------------------------------ properties

Served == IsSome(service)
Positions == 1..Len(log)
IsStart(i, kind) == log[i].ev = "start" /\ log[i].kind = kind
IsEnd(i, kind) == log[i].ev = "end" /\ log[i].kind = kind
IsFailure(i) == log[i].ev = "end" /\ ~log[i].arg.ok
Middlewares(kind) == IF kind = "pre" THEN Rt.pre_middlewares ELSE Rt.post_middlewares

RECURSIVE LexLess(_, _)
\* lexicographic order of registration stamps
LexLess(a, b) ==
  IF a = <<>> THEN b # <<>>
  ELSE IF b = <<>> THEN FALSE
  ELSE IF a[1] # b[1] THEN a[1] < b[1]
  ELSE LexLess(Tail(a), Tail(b))

\* the matched middlewares of a kind that pass the depth gate, in matched order
Admitted(kind) ==
  LET Pass(idx) == route_scope_depth = None
                   \/ Middlewares(kind)[idx].scope_depth <= Unwrap(route_scope_depth)
  IN SelectSeq(IF kind = "pre" THEN matched.pre ELSE matched.post, Pass)

\* the middlewares of a kind that were started, in the order they started
Executed(kind) ==
  LET Started(e) == e.ev = "start" /\ e.kind = kind
      evs == SelectSeq(log, Started)
  IN [k \in 1..Len(evs) |-> evs[k].idx]

\* C1: within one request the participants run one at a time: every start is
\* followed by the end of the same participant before anything else starts;
\* every pre-middleware has finished before the route handler starts; and a
\* post-middleware starts only after the route handler or the error handler
\* has produced a response.
C1_PhasesSequential ==
  Served =>
    /\ \A i \in Positions :
         /\ log[i].ev = "start" => (i = 1 \/ log[i - 1].ev = "end")
         /\ log[i].ev = "end" =>
              i > 1 /\ log[i - 1].ev = "start"
              /\ log[i - 1].kind = log[i].kind /\ log[i - 1].idx = log[i].idx
    /\ \A i \in Positions : \A j \in Positions :
         (i < j /\ log[j].kind = "pre") => log[i].kind = "pre"
    /\ \A i \in Positions : \A j \in Positions :
         (i < j /\ IsStart(j, "route")) => (log[i].kind = "pre" /\ (log[i].ev = "end" => log[i].arg.ok))
    /\ \A j \in Positions :
         IsStart(j, "post") =>
           \E i \in 1..(j - 1) :
             log[i].ev = "end" /\ log[i].kind \in {"route", "err"} /\ log[i].arg.ok

C1_Witness ==
  /\ pc = "done"
  /\ \E i \in Positions : IsEnd(i, "pre")
  /\ \E i \in Positions : IsEnd(i, "route")
  /\ \E i \in Positions : \E j \in Positions :
       i < j /\ IsEnd(i, "post") /\ IsEnd(j, "post")

\* C2 (as stated): the pre-middlewares that execute do so in ascending
\* registration order, a mounted sub-router's middlewares taking the position
\* of the scope() call, and the post-middlewares that execute do so in
\* registration order as well.
C2_RegistrationOrder ==
  Served =>
    \A kind \in {"pre", "post"} :
      \A i \in Positions : \A j \in Positions :
        (i < j /\ IsStart(i, kind) /\ IsStart(j, kind)) =>
          LexLess(Middlewares(kind)[log[i].idx].reg, Middlewares(kind)[log[j].idx].reg)

IsBuiltin(m) == Unwrap(m.handler).fn = "x_powered_by"

\* C2 (amended): the pre-middlewares and the user-registered post-middlewares
\* that execute do so in ascending registration order, a mounted sub-router's
\* middlewares taking the position of the scope() call; the x-powered-by
\* post-middleware that finalization inserts executes before every
\* user-registered post-middleware although it is added last.
C2_UserRegistrationOrder ==
  Served =>
    /\ \A i \in Positions : \A j \in Positions :
         (i < j /\ IsStart(i, "pre") /\ IsStart(j, "pre")) =>
           LexLess(Rt.pre_middlewares[log[i].idx].reg, Rt.pre_middlewares[log[j].idx].reg)
    /\ \A i \in Positions : \A j \in Positions :
         (i < j /\ IsStart(i, "post") /\ IsStart(j, "post")) =>
           LET a == Rt.post_middlewares[log[i].idx]
               b == Rt.post_middlewares[log[j].idx]
           IN /\ ~IsBuiltin(b)
              /\ ~IsBuiltin(a) => LexLess(a.reg, b.reg)
              /\ IsBuiltin(a) => LexLess(b.reg, a.reg)

C2_Witness ==
  /\ pc = "route"
  /\ \E i \in Positions : \E j \in Positions :
       /\ i < j /\ IsStart(i, "pre") /\ IsStart(j, "pre")
       /\ Len(Rt.pre_middlewares[log[i].idx].reg) = 2
       /\ Len(Rt.pre_middlewares[log[j].idx].reg) = 1

\* C3: the route handler that runs is the earliest-registered route whose
\* regex matches the normalized path and whose method set contains the method
\* of the request handed to the route phase, and at most one route handler
\* runs per request.
C3_FirstMatchingRoute ==
  Served =>
    /\ \A i \in Positions :
         IsStart(i, "route") =>
           LET chosen == Rt.routes[log[i].idx]
               Accepts(rt) == /\ is_match(rt.regex, target_path)
                              /\ log[i].arg.method \in {rt.methods[k] : k \in 1..Len(rt.methods)}
           IN /\ Accepts(chosen)
              /\ \A n \in 1..Len(Rt.routes) :
                   (n # log[i].idx /\ Accepts(Rt.routes[n])) =>
                     LexLess(chosen.reg, Rt.routes[n].reg)
    /\ \A i \in Positions : \A j \in Positions :
         (IsStart(i, "route") /\ IsStart(j, "route")) => i = j

C3_Witness ==
  /\ \E i \in Positions :
       /\ IsEnd(i, "route")
       /\ Unwrap(Rt.routes[log[i].idx].handler) = "user"
       /\ Cardinality({n \in 1..Len(Rt.routes) :
            /\ is_match(Rt.routes[n].regex, target_path)
            /\ is_match_method(Rt.routes[n], log[i - 1].arg.method)}) >= 3

RouteAt(i) == Rt.routes[log[i].idx]
MiddlewareAt(j) == Middlewares(log[j].kind)[log[j].idx]
IsMiddlewareStart(j) == IsStart(j, "pre") \/ IsStart(j, "post")
NoFailureOf(kind) == \A i \in Positions : ~(IsEnd(i, kind) /\ ~log[i].arg.ok)
ToSet(sq) == {sq[k] : k \in 1..Len(sq)}
HandlerInstalled == Served /\ IsSome(Rt.err_handler)

\* C4: when the route that runs has a path other than "/*", no pre-middleware
\* and no post-middleware of a scope depth greater than that route's runs,
\* whatever requests the pre-middlewares return.
C4_NoDeeperMiddleware ==
  Served =>
    \A i \in Positions :
      (IsStart(i, "route") /\ RouteAt(i).path # P_star) =>
        \A j \in Positions :
          IsMiddlewareStart(j) => MiddlewareAt(j).scope_depth <= RouteAt(i).scope_depth

\* C5: when the request is handled by a route registered directly on the root
\* router under a path of its own (not "/*"), none of the middlewares of a
\* mounted sub-router runs.
C5_DirectRouteSkipsSubMiddlewares ==
  Served =>
    \A i \in Positions :
      (IsStart(i, "route") /\ RouteAt(i).path # P_star /\ Len(RouteAt(i).reg) = 1) =>
        \A j \in Positions : IsMiddlewareStart(j) => Len(MiddlewareAt(j).reg) = 1

\* the only routes that match the request as sent, by path and method, are "/*" routes
OnlyCatchAll ==
  \A n \in 1..Len(Rt.routes) :
    (/\ is_match(Rt.routes[n].regex, target_path)
     /\ sent.method \in ToSet(Rt.routes[n].methods)) => Rt.routes[n].path = P_star

\* C6: when only "/*" routes match the request by path and method, the chosen
\* depth is undefined and no matched middleware is passed over: the loops
\* execute every matched pre-middleware and post-middleware they reach,
\* whatever its scope depth, so a request that no participant fails has run
\* all of them, those of mounted sub-routers included.
C6_CatchAllRunsEveryMiddleware ==
  (Served /\ pc # "idle" /\ OnlyCatchAll) =>
    /\ route_scope_depth = None
    /\ pc \in {"pre", "pre_await"} =>
         \A k \in 1..(cursor - 1) : matched.pre[k] \in ToSet(Executed("pre"))
    /\ pc \in {"post", "post_await"} =>
         \A k \in 1..(cursor - 1) : matched.post[k] \in ToSet(Executed("post"))
    /\ (pc \notin {"pre", "pre_await", "panic"} /\ NoFailureOf("pre")) =>
         Executed("pre") = matched.pre
    /\ (pc = "done" /\ Unwrap(result).ok /\ NoFailureOf("post")) =>
         Executed("post") = matched.post

C6_Witness ==
  /\ Served /\ pc = "done" /\ OnlyCatchAll
  /\ \E i \in Positions : IsEnd(i, "pre") /\ MiddlewareAt(i).scope_depth = 2
  /\ \E i \in Positions : IsEnd(i, "post") /\ MiddlewareAt(i).scope_depth = 2
  /\ \E i \in Positions : IsEnd(i, "route") /\ Unwrap(RouteAt(i).handler) = "default_404"

\* the response the request ends with after the error handler answered err
\* and the post-middlewares ran to the end without failing
DrainedThroughPosts(err) ==
  (pc = "done" /\ NoFailureOf("post")) =>
    /\ Executed("post") = Admitted("post")
    /\ Unwrap(result).ok
    /\ Unwrap(result).val.kind = "err"
    /\ Unwrap(result).val.err = err
    /\ Unwrap(result).val.via = Executed("post")

RemainingPosts(i) == {idx \in ToSet(Admitted("post")) : idx > log[i].idx}

C10_NoHandlerFailureEnds ==
  (Served /\ Rt.err_handler = None) =>
    \A i \in Positions :
      IsFailure(i) =>
        /\ i = Len(log)
        /\ pc = "done"
        /\ result = Some(Err(log[i].arg.val))

C10_Witness ==
  /\ Served /\ Rt.err_handler = None /\ pc = "done"
  /\ \E i \in Positions : IsFailure(i) /\ log[i].kind = "pre"
  /\ Len(matched.pre) = 2

\* ---------------------------------------- default routes and normalization

HandlerOf(route) == Unwrap(route.handler)

\* some user-registered route matches the target path and accepts the method
UserRouteAccepts(method) ==
  \E n \in 1..Len(Rt.routes) :
    /\ HandlerOf(Rt.routes[n]) = "user"
    /\ is_match(Rt.routes[n].regex, target_path)
    /\ is_match_method(Rt.routes[n], method)

\* some user-registered route matches the target path
UserRouteMatchesPath ==
  \E n \in 1..Len(Rt.routes) :
    HandlerOf(Rt.routes[n]) = "user" /\ is_match(Rt.routes[n].regex, target_path)

\* the request went through the pre-middlewares and route selection has run on it
RouteSelected ==
  /\ pc \in {"route_await", "err_await", "post", "post_await", "done"}
  /\ target_path # <<>>
  /\ NoFailureOf("pre")

\* the route that ran is the default route fn and it answered with the status
AnsweredByDefault(fn, status) ==
  \E i \in Positions :
    /\ IsStart(i, "route")
    /\ HandlerOf(RouteAt(i)) = fn
    /\ i < Len(log) => log[i + 1].arg = Ok(Response(status, "route", log[i].idx, NoErr))

DefaultCatchAllAdded ==
  \E n \in 1..Len(Rt.routes) : HandlerOf(Rt.routes[n]) = "default_404"

NoRouteMatched == Some(Err(RouteError("NoRouteMatched", 0)))

WithSlash == normalize(percent_decode_request_path(sent.uri_path \o <<"/">>).val)
SentDecoded == percent_decode_request_path(sent.uri_path)

\* C13 (as stated): a request to a path p that does not end in "/" has the
\* target path, and so the matched pre-middlewares, routes, post-middlewares
\* and data maps, of the request to p followed by "/".
C13_TrailingSlashIrrelevant ==
  (Served /\ pc # "idle" /\ SentDecoded.ok /\ Last(sent.uri_path) # "/") =>
    /\ target_path = WithSlash
    /\ matched = match_regex_set(Rt, WithSlash)

\* C13 (amended): the same for a path p whose percent-decoded form does not
\* end in "/".
C13_TrailingSlashIrrelevantDecoded ==
  (Served /\ pc # "idle" /\ SentDecoded.ok /\ Last(SentDecoded.val) # "/") =>
    /\ target_path = WithSlash
    /\ matched = match_regex_set(Rt, WithSlash)

C13_Witness ==
  /\ Served /\ pc = "done" /\ sent.uri_path = P_al
  /\ \E k \in 1..Len(matched.route) : Rt.routes[matched.route[k]].path = P_al_slash
  /\ \E k \in 1..Len(matched.pre) : Rt.pre_middlewares[matched.pre[k]].path = P_star

\* ------------------------------------------------------------ mounting

\* P without one trailing "/"
WithoutTrailingSlash(P) ==
  IF P # <<>> /\ P[Len(P)] = "/" THEN [i \in 1..(Len(P) - 1) |-> P[i]] ELSE P

\* the participants  news  are the participants  olds  followed by those of
\* subs , each held at prefix \o its path with a regex compiled from that path
Rehosted(olds, subs, news, prefix) ==
  /\ Len(news) = Len(olds) + Len(subs)
  /\ \A i \in 1..Len(olds) : news[i] = olds[i]
  /\ \A i \in 1..Len(subs) :
       LET m == news[Len(olds) + i]
       IN /\ m.path = prefix \o subs[i].path
          /\ m.regex = generate_exact_match_regex(prefix \o subs[i].path).re
          /\ m.handler = subs[i].handler

\* every data map of the sub-router is in the parent's table under prefix \o its path
DataRehosted(subs, table, prefix) ==
  \A i \in 1..Len(subs) :
    \E k \in 1..Len(table) :
      /\ table[k].path = prefix \o subs[i].path
      /\ \E j \in 1..Len(table[k].arr) : table[k].arr[j] = Unwrap(subs[i].data_map)

\* the step mounts the built sub-router  child  on the root builder
IsScopeStep(child) ==
  IsSome(router[child]) /\ router'[child] = None /\ IsSome(builder["root"])

ScopeRewrites(child) ==
  \E sc \in DataScopes :
    /\ sc[2] = child
    /\ LET prefix == WithoutTrailingSlash(sc[1])
           sub == Unwrap(router[child])
           old == Unwrap(builder["root"])
           new == Unwrap(builder'["root"])
       IN /\ Rehosted(old.routes, sub.routes, new.routes, prefix)
          /\ \A i \in 1..Len(sub.routes) :
               new.routes[Len(old.routes) + i].methods = sub.routes[i].methods
          /\ Rehosted(old.pre_middlewares, sub.pre_middlewares, new.pre_middlewares, prefix)
          /\ Rehosted(old.post_middlewares, sub.post_middlewares, new.post_middlewares, prefix)
          /\ DataRehosted(sub.scoped_data_maps, new.data_maps, prefix)

\* the indices of the participants whose path, compiled anew, exact-matches the target path
Accepting(parts) ==
  LET Hit(i) == is_match(generate_exact_match_regex(parts[i].path).re, target_path)
  IN SelectSeq([i \in 1..Len(parts) |-> i], Hit)

MatchedByPath ==
  (Served /\ pc # "idle" /\ target_path # <<>>) =>
    /\ matched.route = Accepting(Rt.routes)
    /\ matched.pre = Accepting(Rt.pre_middlewares)
    /\ matched.post = Accepting(Rt.post_middlewares)
    /\ matched.data = Accepting(Rt.scoped_data_maps)

\* C14: scope(P, sub) leaves each route, pre-middleware, post-middleware and
\* data map of sub in the parent at the path P' \o R, P' being P without one
\* trailing "/" and R its path in sub, with a regex compiled from that path
\* (the data maps when the parent is built), so that a request matches it
\* exactly when its normalized path exact-matches P' \o R.
C14_ScopeRewritesPaths ==
  /\ [][\A child \in {"sub", "sub2"} : IsScopeStep(child) => ScopeRewrites(child)]_vars
  /\ []MatchedByPath

C14_Witness ==
  /\ Served /\ pc = "route_await" /\ sent.uri_path = P_al
  /\ Len(RouteAt(Len(log)).reg) = 2 /\ RouteAt(Len(log)).path = P_al_slash
  /\ \E k \in 1..Len(matched.pre) :
       Rt.pre_middlewares[matched.pre[k]].path = P_a \o P_star
  /\ \E k \in 1..Len(matched.data) :
       Rt.scoped_data_maps[matched.data[k]].path = P_a \o P_star

\* ------------------------------------------------------------ shared data

IsPrefixOf(a, b) == Len(a) <= Len(b) /\ \A i \in 1..Len(a) : a[i] = b[i]

\* a request is being processed
InRequest == Served /\ pc # "idle" /\ target_path # <<>>

\* the request path lies under the mount prefix P
Under(P) == IsPrefixOf(WithoutTrailingSlash(P) \o <<"/">>, target_path)

\* the finalized router holds a data map at  path  with value v of type t
Holds(path, t, v) ==
  \E k \in 1..Len(Rt.scoped_data_maps) :
    /\ Rt.scoped_data_maps[k].path = path
    /\ DataMap_get(Unwrap(Rt.scoped_data_maps[k].data_map), t) = Some(v)

\* the root router's own "/*" map holds a value of type t
RootHolds(t) == \E v \in 1..4 : Holds(P_star, t, v)

\* what the request's handlers and, when there is a RequestInfo, the
\* post-middlewares and the error handler read for type t
Reads(t, o) ==
  /\ RequestExt_data(req, t) = o
  /\ IsSome(req_info) => RequestInfo_data(Unwrap(req_info), t) = o

\* C16: the data a sub-router mounted at P placed with data() is attached only
\* to requests whose path lies under P, so a value read by a request comes
\* from a sub-router only if the request is under that sub-router's prefix;
\* and, the root holding no value of the type, a request under P reads the
\* value of the sub-router mounted at P.
C16_ScopedDataIsolated ==
  InRequest =>
    /\ \A k \in 1..Len(matched.data) :
         LET path == Rt.scoped_data_maps[matched.data[k]].path
         IN IsPrefixOf(SubSeq(path, 1, Len(path) - 1), target_path)
    /\ \A sc \in DataScopes : \A d \in DataValues(sc[2]) :
         /\ RequestExt_data(req, d[1]) = Some(d[2]) => Under(sc[1])
         /\ (IsSome(req_info) /\ RequestInfo_data(Unwrap(req_info), d[1]) = Some(d[2]))
              => Under(sc[1])
         /\ (/\ Under(sc[1])
             /\ Holds(WithoutTrailingSlash(sc[1]) \o P_star, d[1], d[2])
             /\ ~RootHolds(d[1])) => Reads(d[1], Some(d[2]))

C16_Witness ==
  /\ InRequest /\ pc = "route_await" /\ sent.uri_path = P_bl
  /\ HandlerOf(RouteAt(Len(log))) = "user" /\ RouteAt(Len(log)).path = P_bl \o <<"/">>
  /\ Holds(P_a \o P_star, "T", 2) /\ Holds(P_b \o P_star, "T", 3)
  /\ RequestExt_data(req, "T") = Some(3)

\* C17: for a request under a mounted sub-router's prefix, when the
\* sub-router's map and the root "/*" map both hold a value of a type, data()
\* returns the sub-router's value, whatever the build.
C17_ScopedValuePreferred ==
  InRequest =>
    \A sc \in DataScopes : \A d \in DataValues(sc[2]) :
      (/\ Under(sc[1])
       /\ Holds(WithoutTrailingSlash(sc[1]) \o P_star, d[1], d[2])
       /\ RootHolds(d[1])) => RequestExt_data(req, d[1]) = Some(d[2])

\* the step is a data() call on the root builder: the builder stays open, no
\* participant is registered and its data maps change
IsDataStep ==
  /\ IsSome(builder["root"]) /\ IsSome(builder'["root"])
  /\ Unwrap(builder'["root"]).data_maps # Unwrap(builder["root"]).data_maps
  /\ regs' = regs

\* the step put value d[2] of type d[1] into the builder's one "/*" map and
\* left the values of the other types as they were
DataStepStores(d) ==
  LET old == Unwrap(builder["root"])
      new == Unwrap(builder'["root"])
      before == IF old.data_maps = <<>> THEN DataMap_new ELSE old.data_maps[1].arr[1]
  IN /\ Len(new.data_maps) = 1
     /\ new.data_maps[1].path = P_star
     /\ Len(new.data_maps[1].arr) = 1
     /\ DataMap_get(new.data_maps[1].arr[1], d[1]) = Some(d[2])
     /\ \A u \in DataTypes \ {d[1]} :
          DataMap_get(new.data_maps[1].arr[1], u) = DataMap_get(before, u)
     /\ [new EXCEPT !.data_maps = old.data_maps] = old

\* C18: on one builder every data() call stores its value in the same "/*"
\* map: a value of a type not yet stored joins the earlier values, a value of
\* a stored type takes the place of the earlier one, and the values of all
\* other types stay; so the map holds one value per type given, the last.
C18_DataAddsOrReplaces ==
  [][IsDataStep => \E d \in RepeatedDataValues : DataStepStores(d)]_vars

C18_Witness ==
  /\ IsSome(builder["root"])
  /\ Len(Unwrap(builder["root"]).data_maps) = 1
  /\ Unwrap(builder["root"]).data_maps[1].arr = <<[T |-> Some(4), U |-> Some(1)]>>

\* a matched data map other than the root's "/*" map holds a value of type t
MoreSpecificHolds(t) ==
  \E k \in 1..Len(matched.data) :
    LET m == Rt.scoped_data_maps[matched.data[k]]
    IN m.path # P_star /\ IsSome(DataMap_get(Unwrap(m.data_map), t))

\* C19: a value the root router placed with data() is what data() returns on
\* the request (pre-middlewares, route handler) and on the RequestInfo
\* (post-middlewares, error handler) for every request path, those under a
\* mounted sub-router included, when no more specific map holds a value of
\* that type.
C19_RootDataEverywhere ==
  InRequest =>
    \A t \in DataTypes : \A v \in 1..4 :
      (Holds(P_star, t, v) /\ ~MoreSpecificHolds(t)) => Reads(t, Some(v))

C19_Witness ==
  /\ InRequest /\ pc = "route_await" /\ sent.uri_path = P_al
  /\ HandlerOf(RouteAt(Len(log))) = "user" /\ Len(RouteAt(Len(log)).reg) = 2
  /\ \E i \in Positions : IsEnd(i, "pre")
  /\ Len(req.shared_data_maps) = 2
  /\ DataMap_get(req.shared_data_maps[1], "T") = None
  /\ IsSome(req_info)
  /\ Holds(P_star, "T", 1) /\ Reads("T", Some(1))

\* the value the set_context calls made so far in this request leave for type t
RECURSIVE LastSet(_, _)
LastSet(calls, t) ==
  IF calls = <<>> THEN None
  ELSE IF calls[Len(calls)][1] = t THEN Some(calls[Len(calls)][2])
       ELSE LastSet(SubSeq(calls, 1, Len(calls) - 1), t)

\* C20: within one request context::<T>() returns the value of the most
\* recent set_context of type T made in that request, and None for a type no
\* set_context of that request was given.
C20_ContextLastSet ==
  (Served /\ IsSome(req.context)) =>
    \A t \in DataTypes : RequestExt_context(req, t) = LastSet(ctx_sets, t)

C20_Witness ==
  /\ Served /\ pc = "route_await"
  /\ ctx_sets = << <<"T", 1, "pre">>, <<"T", 2, "route">> >>
  /\ \E i \in Positions : IsEnd(i, "pre")
  /\ RequestExt_context(req, "T") = Some(2) /\ RequestExt_context(req, "U") = None

\* the RequestInfo handed to the post-middleware or error handler that is running
InfoTaking ==
  \/ pc = "post_await"
     /\ Unwrap(Rt.post_middlewares[Unwrap(pending).idx].handler).variant = "WithInfo"
  \/ pc = "err_await" /\ Unwrap(Rt.err_handler).variant = "WithInfo"

\* C21: a context value set in a pre-middleware or in the route handler is what
\* every later phase of the same request reads: the route handler through the
\* request, an info-taking post-middleware and the info-taking error handler
\* through their RequestInfo, also for a value set after the RequestInfo was
\* created and when the route handler then fails.
C21_ContextPropagates ==
  Served =>
    /\ pc = "route_await" =>
         \A t \in DataTypes : RequestExt_context(req, t) = LastSet(ctx_sets, t)
    /\ InfoTaking =>
         /\ IsSome(req_info)
         /\ \A t \in DataTypes :
              RequestInfo_context(Unwrap(req_info), t) = LastSet(ctx_sets, t)

C21_Witness ==
  /\ Served /\ pc = "err_await" /\ InfoTaking
  /\ Unwrap(pending).after = "route"
  /\ ctx_sets = << <<"T", 1, "pre">>, <<"T", 2, "route">> >>
  /\ RequestInfo_context(Unwrap(req_info), "T") = Some(2)

RECURSIVE Segments(_)
\* the texts between the "/" of a path, in order
Segments(path) ==
  IF \A k \in 1..Len(path) : path[k] # "/" THEN <<path>>
  ELSE LET k == CHOOSE k \in 1..Len(path) :
                  path[k] = "/" /\ \A n \in 1..(k - 1) : path[n] # "/"
       IN <<SubSeq(path, 1, k - 1)>> \o Segments(SubSeq(path, k + 1, Len(path)))

\* a segment of a route path that is one named parameter and nothing else
IsParamSegment(seg) ==
  /\ Len(seg) > 1 /\ seg[1] = ":"
  /\ \A k \in 2..Len(seg) : seg[k] \notin {":", "*", "."}

\* the positions of the named parameters of a route path
ParamPositions(path) ==
  {n \in 1..Len(Segments(path)) : IsParamSegment(Segments(path)[n])}

\* every segment of a route path is a literal or one named parameter
PlainParams(path) ==
  \A n \in 1..Len(Segments(path)) :
    LET seg == Segments(path)[n]
    IN IsParamSegment(seg) \/ \A k \in 1..Len(seg) : seg[k] \notin {":", "*"}

\* each parameter name of a route path with the segment the URL has at its position
SegmentParams(path, url) ==
  {<<Tail(Segments(path)[n]), Segments(url)[n]>> : n \in ParamPositions(path)}

\* C22 (as stated): a user route whose path has k named parameters hands its
\* handler a params() of exactly k entries, each parameter name mapped to the
\* segment the request path has at the position of that parameter.
C22_ParamsPerSegment ==
  Served =>
    \A i \in Positions :
      (IsStart(i, "route") /\ HandlerOf(RouteAt(i)) = "user" /\ PlainParams(RouteAt(i).path)) =>
        /\ Cardinality(RequestExt_params(log[i].arg)) = Cardinality(ParamPositions(RouteAt(i).path))
        /\ RequestExt_params(log[i].arg) = SegmentParams(RouteAt(i).path, target_path)

\* C23 (as stated): the route "/f/:i.j" (a named parameter followed by a
\* literal extension in the same segment) hands its handler param("i") = "4"
\* for the request "/f/4.j".
C23_ExtensionParam ==
  Served =>
    \A i \in Positions :
      (IsStart(i, "route") /\ HandlerOf(RouteAt(i)) = "user"
         /\ RouteAt(i).path = add_path(P_f_ij) /\ sent.uri_path = P_f4j) =>
        RequestExt_param(log[i].arg, <<"i">>) = Some(<<"4">>)

\* the pre-middlewares the builder holds, each with the regex compiled from its path
Compiled ==
  IF IsSome(builder["root"]) THEN ToSet(Unwrap(builder["root"]).pre_middlewares) ELSE {}

\* the pattern has a `*` wildcard
HasWildcard(path) == \E k \in 1..Len(generate_common_regex_str(path).re) :
                       generate_common_regex_str(path).re[k] = ANY

\* the pattern ends in a named parameter
EndsInParam(path) ==
  LET re == generate_common_regex_str(path).re
  IN re # <<>> /\ Last(re) = SEG

\* C24 (as stated): the exact-match regex compiled from a path P matches the
\* text P itself and does not match P followed by any non-empty extra text.
C24_ExactRegexMatchesOnlyItself ==
  \A m \in Compiled :
    /\ is_match(m.regex, m.path)
    /\ \A extra \in Extras : ~is_match(m.regex, m.path \o extra)

\* C24 (amended): the exact-match regex compiled from a path P matches the text
\* P itself; when P has no `*` wildcard and does not end in a named parameter
\* it does not match P followed by any non-empty extra text, and when P ends in
\* `*` or in a named parameter it does match P followed by extra text without "/".
C24_ExactRegexMatchesItself ==
  \A m \in Compiled :
    /\ is_match(m.regex, m.path)
    /\ (~HasWildcard(m.path) /\ ~EndsInParam(m.path)) =>
         \A extra \in Extras : ~is_match(m.regex, m.path \o extra)
    /\ (Last(m.path) = "*" \/ EndsInParam(m.path)) =>
         is_match(m.regex, m.path \o <<"a">>)

C24_Witness ==
  \E m \in Compiled :
    /\ m.path = <<"/", "a", "/", ":", "a", "/", "a">>
    /\ m.regex = <<BOL, "/", "a", "/", SEG, "/", "a", EOL>>
    /\ is_match(m.regex, m.path)
    /\ ~is_match(m.regex, m.path \o <<"a">>)

\* the RegexSet and the request-info bit of a router are set
Finalized(rt) == IsSome(rt.regex_set) /\ IsSome(rt.should_gen_req_info)

\* no request is processed and no connection is served before the factory exists
NothingBeforeFactory ==
  service = None =>
    /\ pc = "idle" /\ log = <<>> /\ handles.services = {}
    /\ \A r \in Builders : IsSome(router[r]) => ~Finalized(Unwrap(router[r]))

\* a step taken once the factory exists leaves the router as it is
RouterFrozen == IsSome(service) => service' = service

\* C25: the default participants, the RegexSet and the request-info bit are
\* set once, when the service factory is created and before any request is
\* processed; afterwards no request, no clone of the factory and no
\* per-connection service build changes the participant lists, the error
\* handler or the RegexSet of the router.
C25_FinalizedOnce ==
  /\ [](NothingBeforeFactory /\ (Served => Finalized(Rt)))
  /\ [][RouterFrozen]_vars

C25_Witness ==
  /\ Served /\ handles = [factories |-> 2, services |-> {"c1", "c2"}]
  /\ pc = "done" /\ IsSome(result) /\ Unwrap(result).ok
  /\ \E i \in Positions : IsEnd(i, "route") /\ HandlerOf(RouteAt(i)) = "user"

\* the router a participant was registered on, as the chain of scope() calls
\* that mounted it (empty for the root router)
Owner(p) == SubSeq(p.reg, 1, Len(p.reg) - 1)

\* the middlewares a tree walk runs for a request that ends at the given route:
\* those matching the path that were registered on the route's own router or
\* on a router it is mounted under, in registration order
TreeWalk(kind, route) ==
  LET OnTheWay(idx) == IsPrefixOf(Owner(Middlewares(kind)[idx]), Owner(route))
  IN SelectSeq(IF kind = "pre" THEN matched.pre ELSE matched.post, OnTheWay)

\* C26 (as stated): the flattened root router runs the participants a recursive
\* tree walk runs, in the same order: for a request that a route other than a
\* "/*" catch-all handles, the pre-middlewares run before it and the
\* post-middlewares run after it are the matching middlewares of the route's
\* own router and of the routers it is mounted under.
C26_FlatEqualsTreeWalk ==
  Served =>
    \A i \in Positions :
      (IsStart(i, "route") /\ RouteAt(i).path # P_star) =>
        /\ Executed("pre") = TreeWalk("pre", RouteAt(i))
        /\ (pc = "done" /\ NoFailureOf("route") /\ NoFailureOf("post")) =>
             Executed("post") = TreeWalk("post", RouteAt(i))

\* the request as RequestService::call hands it to the router
Incoming(request) == request.method = sent.method /\ request.via = <<>>

\* the request a route handler was given, without the parameters attached for it
WithoutParams(request) == [request EXCEPT !.params = None]

\* C27: each executed pre-middleware receives the request the pre-middleware
\* executed before it returned (the first one the incoming request), the route
\* handler receives the request the last one returned, each executed
\* post-middleware receives the response the stage before it returned, and the
\* service call returns the response the last executed post-middleware returned.
C27_ValuesThreaded ==
  Served =>
    /\ \A j \in Positions :
         /\ IsStart(j, "pre") =>
              IF j = 1 THEN Incoming(log[j].arg)
              ELSE IsEnd(j - 1, "pre") /\ log[j].arg = log[j - 1].arg.val
         /\ IsStart(j, "route") =>
              IF j = 1 THEN Incoming(log[j].arg)
              ELSE IsEnd(j - 1, "pre") /\ WithoutParams(log[j].arg) = log[j - 1].arg.val
         /\ IsStart(j, "post") =>
              /\ j > 1 /\ log[j - 1].ev = "end" /\ log[j - 1].arg.ok
              /\ log[j].arg = log[j - 1].arg.val
    /\ (pc = "done" /\ log # <<>> /\ IsEnd(Len(log), "post") /\ Last(log).arg.ok) =>
         result = Some(Ok(Last(log).arg.val))

C27_Witness ==
  /\ Served /\ pc = "done"
  /\ Cardinality({j \in Positions : IsEnd(j, "pre")}) = 2
  /\ \E j \in Positions : IsStart(j, "route") /\ log[j].arg.method # sent.method
  /\ IsEnd(Len(log), "post") /\ result = Some(Ok(Last(log).arg.val))
  /\ Len(Last(log).arg.val.via) = 1

\* a step that creates the service factory
IsFinalizeStep == service = None /\ IsSome(service')

\* the router holds a route of the kind the default route is: same path, same method list
HasRouteOfKind(rt, methods) ==
  \E k \in 1..Len(rt.routes) : rt.routes[k].path = P_star /\ rt.routes[k].methods = methods

\* the positions of the routes of a router that run the given built-in handler
DefaultRoutes(rt, fn) == {k \in 1..Len(rt.routes) : HandlerOf(rt.routes[k]) = fn}

FinalizeKeepsUserParts ==
  LET before == Unwrap(router["root"])
      after == Unwrap(service')
      n == Len(before.routes)
  IN /\ Len(after.routes) >= n /\ SubSeq(after.routes, 1, n) = before.routes
     /\ \A k \in (n + 1)..Len(after.routes) :
          HandlerOf(after.routes[k]) \in {"default_options", "default_404"}
     /\ Cardinality(DefaultRoutes(after, "default_options")) <= 1
     /\ Cardinality(DefaultRoutes(after, "default_404")) <= 1
     /\ DefaultRoutes(after, "default_options") # {} => ~HasRouteOfKind(before, <<"OPTIONS">>)
     /\ DefaultRoutes(after, "default_404") # {} =>
          ~HasRouteOfKind(before, ALL_POSSIBLE_HTTP_METHODS)
     /\ IsSome(before.err_handler) => after.err_handler = before.err_handler
     /\ (IsSome(after.err_handler) /\ Unwrap(after.err_handler).fn = "default") =>
          before.err_handler = None

\* C28: finalization adds the default OPTIONS route, the default catch-all
\* route and the default error handler only when the router holds none of that
\* kind, puts the default routes after every user route, and leaves every user
\* route and a user-installed error handler in place, unchanged and in order.
C28_FinalizeOnlyAdds == [][IsFinalizeStep => FinalizeKeepsUserParts]_vars

C28_Witness ==
  /\ Served /\ Len(Rt.routes) = 3
  /\ HandlerOf(Rt.routes[1]) = "user" /\ Rt.routes[1].path = P_star
  /\ Rt.routes[1].methods = ALL_POSSIBLE_HTTP_METHODS
  /\ HandlerOf(Rt.routes[2]) = "user"
  /\ HandlerOf(Rt.routes[3]) = "default_options"
  /\ IsSome(Rt.err_handler) /\ Unwrap(Rt.err_handler).fn = "user"

\* the regexes of the four participant vectors of a router, in the order pre-middlewares,
\* routes, post-middlewares, data maps
RegexesOf(part) == [k \in 1..Len(part) |-> part[k].regex]

\* the local indices of the participants of a vector whose regex matches the path
Hits(part, path) ==
  LET Hit(k) == is_match(part[k].regex, path)
  IN SelectSeq([k \in 1..Len(part) |-> k], Hit)

\* C29: the RegexSet of the served router is the regexes of the pre-middlewares,
\* of the routes, of the post-middlewares and of the data maps, one after the
\* other, for the vectors as they are after finalization added the default
\* participants; so at dispatch every hit falls in the range of exactly one
\* class and the four index lists hold the local indices of the participants
\* whose regex matches the target path, ascending.
C29_RegexSetPartition ==
  Served =>
    /\ Unwrap(Rt.regex_set) = RegexesOf(Rt.pre_middlewares) \o RegexesOf(Rt.routes)
                                \o RegexesOf(Rt.post_middlewares) \o RegexesOf(Rt.scoped_data_maps)
    /\ InRequest =>
         /\ matched.pre = Hits(Rt.pre_middlewares, target_path)
         /\ matched.route = Hits(Rt.routes, target_path)
         /\ matched.post = Hits(Rt.post_middlewares, target_path)
         /\ matched.data = Hits(Rt.scoped_data_maps, target_path)

C29_Witness ==
  /\ InRequest /\ pc = "done"
  /\ matched.pre # <<>> /\ matched.data # <<>>
  /\ \E k \in 1..Len(matched.post) :
       Unwrap(Rt.post_middlewares[matched.post[k]].handler).fn = "x_powered_by"
  /\ \E i \in Positions :
       IsEnd(i, "route") /\ HandlerOf(RouteAt(i)) = "default_404" /\ log[i].idx = Len(Rt.routes)

\* the served router has a participant that takes a RequestInfo
NeedsInfo(rt) ==
  \/ IsSome(rt.err_handler) /\ Unwrap(rt.err_handler).variant = "WithInfo"
  \/ \E i \in 1..Len(rt.post_middlewares) :
       Unwrap(rt.post_middlewares[i].handler).variant = "WithInfo"

\* the path of the request in hand percent-decodes
PathDecodes == percent_decode_request_path(sent.uri_path).ok

\* C30 as stated: after finalization the request-info bit is true iff the error
\* handler or some post-middleware is the info-taking variant, and a RequestInfo
\* is constructed for a request exactly when the bit is true.
C30_InfoExactlyWhenBit ==
  Served =>
    /\ Unwrap(Rt.should_gen_req_info) = NeedsInfo(Rt)
    /\ pc # "idle" => (IsSome(req_info) <=> Unwrap(Rt.should_gen_req_info))

\* C30 amended: the bit is as stated; a RequestInfo is constructed for a request
\* exactly when the bit is true and the request path percent-decodes, and never
\* for a request rejected with BadRequestPath.
C30_InfoWhenBitAndPathDecodes ==
  Served =>
    /\ Unwrap(Rt.should_gen_req_info) = NeedsInfo(Rt)
    /\ pc # "idle" =>
         (IsSome(req_info) <=> (Unwrap(Rt.should_gen_req_info) /\ PathDecodes))

C30_Witness ==
  /\ Served /\ pc = "done" /\ PathDecodes
  /\ IsSome(Rt.err_handler) /\ Unwrap(Rt.err_handler).variant = "WithoutInfo"
  /\ \E i \in 1..Len(Rt.post_middlewares) :
       Unwrap(Rt.post_middlewares[i].handler).variant = "WithInfo"
  /\ IsSome(req_info)

\* the path ends in "/" or "*"
EndsInSlashOrStar(path) == Len(path) > 0 /\ Last(path) \in {"/", "*"}

\* the paths of the participants and data maps a builder or router record holds
PathsHeld(o, maps) ==
  {o.pre_middlewares[i].path : i \in 1..Len(o.pre_middlewares)}
  \cup {o.routes[i].path : i \in 1..Len(o.routes)}
  \cup {o.post_middlewares[i].path : i \in 1..Len(o.post_middlewares)}
  \cup {maps[i].path : i \in 1..Len(maps)}

\* C31: after any sequence of add, middleware, data and scope calls every
\* pre-middleware, route, post-middleware and data map held by a builder, by a
\* built router or by the served router has a path that ends in "/" or "*".
C31_PathsEndInSlashOrStar ==
  /\ \A r \in RouterIds :
       /\ IsSome(builder[r]) =>
            \A path \in PathsHeld(Unwrap(builder[r]), Unwrap(builder[r]).data_maps) :
              EndsInSlashOrStar(path)
       /\ IsSome(router[r]) =>
            \A path \in PathsHeld(Unwrap(router[r]), Unwrap(router[r]).scoped_data_maps) :
              EndsInSlashOrStar(path)
  /\ Served => \A path \in PathsHeld(Rt, Rt.scoped_data_maps) : EndsInSlashOrStar(path)

\* the scope depth and the stamps of a participant
DepthOf(p) == [scope_depth |-> p.scope_depth, reg |-> p.reg]

\* the pre-middlewares, routes and post-middlewares a builder or router record holds
ParticipantsOf(o) ==
  {DepthOf(o.pre_middlewares[i]) : i \in 1..Len(o.pre_middlewares)}
  \cup {DepthOf(o.routes[i]) : i \in 1..Len(o.routes)}
  \cup {DepthOf(o.post_middlewares[i]) : i \in 1..Len(o.post_middlewares)}

\* the scope() calls that moved the participant towards the router that holds
\* it now: each one put its stamp in front of the registration stamp
Mounts(p) == Len(p.reg) - 1

\* every participant the record holds has depth 1 plus the number of scope()
\* calls that re-hosted it
DepthCountsMounts(o) == \A p \in ParticipantsOf(o) : p.scope_depth = 1 + Mounts(p)

BadRequestPath == Some(Err(RouteError("BadRequestPath", 0)))

\* no matched route accepts the method of the request as it is after the
\* pre-middlewares
NoRouteAccepts == first_route(Rt, matched.route, req.method, FALSE) = None

\* neither the error handler nor a post-middleware was started
NoErrHandlerNoPost == \A i \in Positions : log[i].kind \notin {"err", "post"}

\* C33 as stated: a request whose path fails percent-decoding is rejected with
\* BadRequestPath before any participant runs, and a request that no route
\* accepts ends with NoRouteMatched; neither invokes the error handler or a
\* post-middleware.
C33_FatalErrorsUnhandled ==
  (Served /\ pc = "done") =>
    /\ ~PathDecodes => (result = BadRequestPath /\ log = <<>>)
    /\ (PathDecodes /\ NoRouteAccepts) => (result = NoRouteMatched /\ NoErrHandlerNoPost)

\* C33 amended: a request whose path fails percent-decoding is rejected with
\* BadRequestPath before any participant runs; a request whose pre-middlewares
\* all succeeded and that no route accepts ends with NoRouteMatched; a call
\* that returns either error has invoked neither the error handler nor a
\* post-middleware.
C33_FatalErrorsUnhandledAfterPre ==
  (Served /\ pc = "done") =>
    /\ ~PathDecodes => (result = BadRequestPath /\ log = <<>>)
    /\ (PathDecodes /\ NoRouteAccepts /\ \A i \in Positions : ~IsFailure(i)) =>
         result = NoRouteMatched
    /\ result \in {BadRequestPath, NoRouteMatched} => NoErrHandlerNoPost

C33_Witness ==
  /\ Served /\ pc = "done" /\ result = NoRouteMatched
  /\ IsSome(Rt.err_handler) /\ matched.post # <<>>
  /\ \E i \in Positions : IsEnd(i, "pre")

\* the step builds the root router
IsRootBuildStep == IsSome(builder["root"]) /\ builder'["root"] = None /\ IsSome(router'["root"])

\* the error handler of the root is what the user gave the root builder: scope()
\* leaves it alone, build() hands it to the router and the factory keeps it,
\* installing the default one only when the root has none
RootErrHandlerKept ==
  /\ \A child \in {"sub", "sub2"} :
       IsScopeStep(child) =>
         Unwrap(builder'["root"]).err_handler = Unwrap(builder["root"]).err_handler
  /\ IsRootBuildStep =>
       Unwrap(router'["root"]).err_handler = Unwrap(builder["root"]).err_handler
  /\ IsFinalizeStep =>
       LET given == Unwrap(router["root"]).err_handler
           served == Unwrap(service').err_handler
       IN IF IsSome(given) THEN served = given
          ELSE served = None \/ Unwrap(served).fn = "default"

\* C34: scope() never transfers a sub-router's error handler: the parent's error
\* handler is the same after scope() as before it, whether or not the sub-router
\* had one, so the handler that serves the failures of the sub-router's
\* participants is the root's.
C34_ScopeKeepsErrHandler == [][RootErrHandlerKept]_vars

C34_Witness ==
  /\ Served /\ pc = "done"
  /\ Rt.err_handler = Some([variant |-> "WithoutInfo", fn |-> "user"])
  /\ \E i \in Positions :
       /\ IsEnd(i, "route") /\ IsFailure(i) /\ Len(RouteAt(i).reg) = 2
       /\ i < Len(log) /\ IsStart(i + 1, "err")

Running(id) == inflight.reqs[id].pc = "running"

\* C35: each service call creates a fresh, empty RequestContext; however the
\* requests that run side by side through one router interleave, what a request
\* reads from its context (directly or through its RequestInfo) is what its own
\* set_context calls left there, never a value of another request, no two
\* running requests share a context, and no context is left once its request
\* has completed.
C35_ContextsIsolated ==
  /\ \A id \in ReqIds :
       Running(id) =>
         LET r == inflight.reqs[id]
         IN /\ IsSome(r.context)
            /\ \A t \in DataTypes :
                 /\ RequestContext_get_in(inflight.heap, Unwrap(r.context), t) = LastSet(r.sets, t)
                 /\ IsSome(r.info) =>
                      RequestContext_get_in(inflight.heap, Unwrap(r.info).context, t)
                        = LastSet(r.sets, t)
  /\ \A id \in ReqIds : \A other \in ReqIds \ {id} :
       (Running(id) /\ Running(other)) =>
         inflight.reqs[id].context # inflight.reqs[other].context
  /\ DOMAIN inflight.heap = {Unwrap(inflight.reqs[id].context) : id \in {o \in ReqIds : Running(o)}}

C35_Witness ==
  /\ Running(1) /\ Running(2)
  /\ inflight.reqs[1].sets = << <<"T", 1>> >> /\ inflight.reqs[2].sets = << <<"T", 2>> >>
  /\ IsSome(inflight.reqs[2].info)
  /\ RequestContext_get_in(inflight.heap, Unwrap(inflight.reqs[1].context), "T") = Some(1)
  /\ RequestContext_get_in(inflight.heap, Unwrap(inflight.reqs[2].info).context, "T") = Some(2)
  /\ inflight.reqs[2].context = Some(1)

\* the data maps the RequestInfo holds, none when it was given no list
InfoMaps == IF IsSome(Unwrap(req_info).shared_data_maps)
            THEN Unwrap(Unwrap(req_info).shared_data_maps) ELSE <<>>

\* C36: for every request for which a RequestInfo is materialized, data<T>()
\* on the RequestInfo returns what data<T>() returns on the request, for every
\* type, because both hold the matched data maps in the same order; this also
\* holds while the error handler runs after a pre-middleware failure.
C36_InfoDataEqualsRequestData ==
  (InRequest /\ IsSome(req_info)) =>
    /\ InfoMaps = req.shared_data_maps
    /\ \A t \in DataTypes : RequestInfo_data(Unwrap(req_info), t) = RequestExt_data(req, t)

C36_Witness ==
  /\ InRequest /\ IsSome(req_info) /\ pc = "err_await"
  /\ \E i \in Positions : IsEnd(i, "pre") /\ IsFailure(i)
  /\ Len(InfoMaps) = 2
  /\ DataMap_get(InfoMaps[1], "T") # DataMap_get(InfoMaps[2], "T")
  /\ IsSome(DataMap_get(InfoMaps[1], "T")) /\ IsSome(DataMap_get(InfoMaps[2], "T"))
  /\ RequestInfo_data(Unwrap(req_info), "T") = DataMap_get(InfoMaps[1], "T")

\* the participant started at position i of the log takes a RequestInfo
StartsInfoTaking(i) ==
  \/ IsStart(i, "post") /\ Unwrap(Rt.post_middlewares[log[i].idx].handler).variant = "WithInfo"
  \/ IsStart(i, "err") /\ Unwrap(Rt.err_handler).variant = "WithInfo"

\* C37: whenever an info-taking post-middleware or an info-taking error handler
\* is executed a RequestInfo is there for it: for every router built through
\* the builder and finalized by the service factory neither `No RequestInfo
\* is provided` expectation fails.
C37_InfoAvailable ==
  Served =>
    /\ pc # "panic"
    /\ \A i \in Positions : StartsInfoTaking(i) => IsSome(req_info)

C37_Witness ==
  /\ Served /\ pc = "err_await" /\ IsSome(req_info)
  /\ \E i \in Positions : IsStart(i, "post") /\ StartsInfoTaking(i)
  /\ StartsInfoTaking(Len(log)) /\ IsStart(Len(log), "err")

\* the number of times the participant (kind, idx) was started in this request
Starts(kind, idx) ==
  LET Started(e) == e.ev = "start" /\ e.kind = kind /\ e.idx = idx
  IN Len(SelectSeq(log, Started))

\* every matched pre- and post-middleware was started at most once and at most
\* one route handler was started
ExecutedAtMostOnce ==
  Served =>
    /\ \A k \in 1..Len(matched.pre) : Starts("pre", matched.pre[k]) <= 1
    /\ \A k \in 1..Len(matched.post) : Starts("post", matched.post[k]) <= 1
    /\ Cardinality({i \in Positions : IsStart(i, "route")}) <= 1
    /\ \A i \in Positions :
         /\ IsStart(i, "pre") => \E k \in 1..Len(matched.pre) : matched.pre[k] = log[i].idx
         /\ IsStart(i, "post") => \E k \in 1..Len(matched.post) : matched.post[k] = log[i].idx

\* C38: in one request every matched pre-middleware and every matched
\* post-middleware is executed at most once and at most one route handler is
\* executed, so a request whose invoked participants all return is processed
\* to its end.
C38_AtMostOnceAndTerminates ==
  /\ []ExecutedAtMostOnce
  /\ (pc # "idle") ~> (pc = "done")

C38_Witness ==
  /\ Served /\ pc = "done" /\ IsSome(result) /\ Unwrap(result).ok
  /\ Len(matched.route) > 1
  /\ \E k \in 1..Len(matched.pre) : Starts("pre", matched.pre[k]) = 1
  /\ \E k \in 1..Len(matched.post) : Starts("post", matched.post[k]) = 1
  /\ \E i \in Positions : IsStart(i, "route")

\* the builder r holds an error
Failed(r) == IsSome(builder[r]) /\ IsErr(Unwrap(builder[r]))

\* a step taken while a builder holds an error leaves the builder as it is, or
\* is the build() that returns this error in place of a router
FirstErrorKept ==
  \A r \in RouterIds :
    Failed(r) =>
      \/ builder'[r] = builder[r] /\ router'[r] = router[r]
      \/ builder'[r] = None /\ router'[r] = builder[r]

\* the error a builder holds names a path whose regex does not compile
ErrorsAreCompileErrors ==
  \A r \in RouterIds :
    Failed(r) => ~generate_exact_match_regex(Unwrap(builder[r]).err).ok

\* C39: once a builder operation has failed the builder keeps that first
\* error: every later add, middleware, data, scope or err_handler call leaves
\* it unchanged, and build() returns that error instead of a router.
C39_FirstErrorKept == []ErrorsAreCompileErrors /\ [][FirstErrorKept]_vars

C39_Witness ==
  /\ builder["root"] = None /\ router["sub"] = None
  /\ router["root"] = Some(BuilderErr(P_long \o P_l \o <<"/">>))
  /\ regs["root"] = 1 /\ regs["sub"] = 1
  /\ service = None

====
